---- MODULE Spec2Model ----
(***************************************************************************)
(* State-machine model of the Twilio number-management Telegram bot        *)
(* (src/main.py; src/bot.py holds an older copy of the resolver and of     *)
(* /configure).  One action per handler registered in main(); the provider *)
(* (Twilio REST API) is a black box whose every call returns or raises     *)
(* nondeterministically.                                                   *)
(*                                                                         *)
(* Python values are modelled as records tagged with their type (field t), *)
(* so that None, str, tuple, list and Client stay distinguishable.         *)
(* Command arguments, phone numbers and callback data are plain strings.   *)
(***************************************************************************)
EXTENDS Integers, Sequences, FiniteSets, TLC

VARIABLES
    user_twilio_credentials,  \* {chat_id: {"sid", "token", ["client"]}}
    validated,                \* history: chat_id -> a probe succeeded since the
                              \* credentials now stored were stored
    ev,                       \* the event handled last, with everything it did
    waiting,                  \* event loop: the update that has arrived and is
                              \* not yet dispatched
    tasks,                    \* event loop: the handler coroutines in flight
    finished                  \* event loop: the event whose handler ended last

vars == <<user_twilio_credentials, validated, ev, waiting, tasks, finished>>

---------------------------------------------------------------------------
(* Bounds of the model                                                     *)

NumTokens == 1

---------------------------------------------------------------------------
(* Program constants                                                       *)

ADMIN_CHAT_ID == 123456789
ADMIN_CHAT_IDS == {ADMIN_CHAT_ID}
SID_LENGTH == 34
SEARCH_LIMIT == 5
LIST_LIMIT == 20
DEFAULT_SMS_LIMIT == 5
MIN_SMS_LIMIT == 1
MAX_SMS_LIMIT == 20
MAX_MESSAGE_LENGTH == 4000
CODE_NUMBER_UNAVAILABLE == 21452

BUY_CALLBACK_PREFIX == "buy_"
RELEASE_CALLBACK_PREFIX == "release_"
CHECKSMS_CALLBACK_PREFIX == "sms_"
MAIN_MENU_CALLBACK_PREFIX == "menu_"

---------------------------------------------------------------------------
(* Inputs                                                                  *)

\* the admin's chat and one other chat
ChatIds == ADMIN_CHAT_IDS \cup {1}

SidA == "ACaaaaaaaaaaaaaaaaaaaaaaaaaaaaaaaa"
SidB == "ACbbbbbbbbbbbbbbbbbbbbbbbbbbbbbbbb"
WellFormedSids == {SidA, SidB}
MalformedSids ==
    { "ACaaaa",                                   \* right prefix, too short
      "ACaaaaaaaaaaaaaaaaaaaaaaaaaaaaaaa",        \* right prefix, 33 chars
      "ACaaaaaaaaaaaaaaaaaaaaaaaaaaaaaaaaa",      \* right prefix, 35 chars
      "XXaaaaaaaaaaaaaaaaaaaaaaaaaaaaaaaa",       \* 34 chars, wrong prefix
      "acaaaaaaaaaaaaaaaaaaaaaaaaaaaaaaaa",       \* 34 chars, lower-case prefix
      "A" }                                       \* shorter than the prefix
Sids == WellFormedSids \cup MalformedSids
AuthTokens == { "auth" \o ToString(i) : i \in 1..NumTokens }

---------------------------------------------------------------------------
(* Python values                                                           *)

None == [t |-> "None"]
Client(sid, token) == [t |-> "Client", sid |-> sid, token |-> token]
\* a str: the message template id and what is formatted into it (a record)
Str(id, arg) == [t |-> "str", id |-> id, arg |-> arg]
Msg(id) == Str(id, None)
Tuple(items) == [t |-> "tuple", items |-> items]
List(items) == [t |-> "list", items |-> items]

\* s.startswith(prefix)
StartsWith(s, prefix) ==
    Len(s) >= Len(prefix) /\ SubSeq(s, 1, Len(prefix)) = prefix

\* s[n:]
SliceFrom(s, n) == SubSeq(s, n + 1, Len(s))

\* d.pop(k, None) / del d[k]
DictDel(d, k) == [x \in DOMAIN d \ {k} |-> d[x]]
\* d[k] = v
DictSet(d, k, v) == [x \in DOMAIN d \cup {k} |-> IF x = k THEN v ELSE d[x]]

\* truthiness of a str
Truthy(s) == s # ""

---------------------------------------------------------------------------
(* Provider boundary: every call returns a value or raises                 *)

TwilioRestException == "TwilioRestException"
OtherException == "Exception"

Ok(value) == [kind |-> "ok", value |-> value, code |-> 0]
Raise(exc, code) == [kind |-> exc, value |-> None, code |-> code]

\* fault codes a failed probe may carry: 20003 (authentication failure) and
\* 20429 (too many requests)
ProbeFaultCodes == {20003, 20429}
RestFaults(codes) == { Raise(TwilioRestException, c) : c \in codes }
UnexpectedFault == Raise(OtherException, 0)

\* accounts(sid).fetch()
ProbeOutcomes ==
    {Ok(None)} \cup RestFaults(ProbeFaultCodes) \cup {UnexpectedFault}

\* one call of the provider library, as it is logged in ev.calls; "Client" is
\* the construction of a client handle, every other op is a REST request
Call(op, client, arg, outcome) ==
    [op |-> op, client |-> client, arg |-> arg, outcome |-> outcome]

IsRequest(call) == call.op # "Client"
Requests(calls) == SelectSeq(calls, IsRequest)

---------------------------------------------------------------------------
(* The run of one handler: what it has done so far                         *)

Begin(creds) ==
    [ creds    |-> creds,    \* user_twilio_credentials
      calls    |-> <<>>,     \* provider library calls, in order
      resolves |-> <<>>,     \* get_twilio_client calls, in order
      replies  |-> <<>>,     \* messages handed to the chat transport
      logs     |-> <<>>,     \* logger.warning records
      ops      |-> <<>>,     \* _internal_* operations invoked
      returns  |-> <<>>,     \* what each _internal_* operation returned
      stored   |-> FALSE,    \* a credential pair was written by /configure
      answered |-> FALSE,    \* query.answer() was called
      route    |-> <<>>,     \* button branches taken, with the payload each got
      raised   |-> FALSE,    \* an exception left the handler
      done     |-> FALSE,    \* a decorator has answered: the handler is not called
      ret      |-> None ]    \* value of the last call

---------------------------------------------------------------------------
(* get_twilio_client                                                       *)

\* mutant: the whole record is deleted on a failed probe of the cached handle
DropCachedClient_DeletesRecord(creds, chat_id) ==
    IF chat_id \in DOMAIN creds THEN DictDel(creds, chat_id) ELSE creds

\* main.py 99-100: the cached handle is dropped, the credential pair is kept
DropCachedClient(creds, chat_id) ==
    IF chat_id \in DOMAIN creds
    THEN DictSet(creds, chat_id, DictDel(creds[chat_id], "client"))
    ELSE creds

\* mutant: only the handle is dropped on a failed probe of the rebuilt client
EvictSession_KeepsPair(creds, chat_id) ==
    IF chat_id \in DOMAIN creds
    THEN DictSet(creds, chat_id, DictDel(creds[chat_id], "client"))
    ELSE creds

\* mutant: the store is cleared, the records of the other users included
EvictSession_ClearsStore(creds, chat_id) == <<>>

\* main.py 113-114: the whole record is deleted
EvictSession(creds, chat_id) ==
    IF chat_id \in DOMAIN creds THEN DictDel(creds, chat_id) ELSE creds

\* mutant: the validated client is returned but not cached
CacheClient_Forgets(creds, chat_id, client) == creds

\* main.py 109
CacheClient(creds, chat_id, client) ==
    DictSet(creds, chat_id, DictSet(creds[chat_id], "client", client))

HasCachedClient(creds, chat_id) ==
    chat_id \in DOMAIN creds /\ "client" \in DOMAIN creds[chat_id]

\* mutant: the return after a successful probe of the cached handle is missing
ProbeCached_FallsThrough(creds, chat_id, o1) ==
    IF chat_id \in DOMAIN creds /\ "client" \in DOMAIN creds[chat_id]
    THEN LET cached == creds[chat_id]["client"]
             call == Call("accounts.fetch", cached,
                          [sid |-> creds[chat_id]["sid"]], o1)
         IN  CASE o1.kind = "ok" ->
                    [returned |-> FALSE, raised |-> FALSE, ret |-> cached,
                     creds |-> creds, calls |-> <<call>>]
               [] o1.kind = TwilioRestException ->
                    [returned |-> FALSE, raised |-> FALSE, ret |-> None,
                     creds |-> DictSet(creds, chat_id, DictDel(creds[chat_id], "client")),
                     calls |-> <<call>>]
               [] OTHER ->
                    [returned |-> TRUE, raised |-> TRUE, ret |-> None,
                     creds |-> creds, calls |-> <<call>>]
    ELSE [returned |-> FALSE, raised |-> FALSE, ret |-> None,
          creds |-> creds, calls |-> <<>>]

\* main.py 93-100: probe of the cached handle.  "returned" says that the
\* function has returned (or raised) here.
ProbeCached(creds, chat_id, o1) ==
    IF HasCachedClient(creds, chat_id)
    THEN LET cached == creds[chat_id]["client"]
             call == Call("accounts.fetch", cached,
                          [sid |-> creds[chat_id]["sid"]], o1)
         IN  CASE o1.kind = "ok" ->
                    [returned |-> TRUE, raised |-> FALSE, ret |-> cached,
                     creds |-> creds, calls |-> <<call>>]
               [] o1.kind = TwilioRestException ->
                    [returned |-> FALSE, raised |-> FALSE, ret |-> None,
                     creds |-> DropCachedClient(creds, chat_id),
                     calls |-> <<call>>]
               [] OTHER ->
                    [returned |-> TRUE, raised |-> TRUE, ret |-> None,
                     creds |-> creds, calls |-> <<call>>]
    ELSE [returned |-> FALSE, raised |-> FALSE, ret |-> None,
          creds |-> creds, calls |-> <<>>]

\* main.py 102-116: a new client is built from the stored pair and probed
Reconstruct(creds, chat_id, o2) ==
    IF chat_id \in DOMAIN creds
    THEN LET sid == creds[chat_id]["sid"]
             token == creds[chat_id]["token"]
         IN  IF Truthy(sid) /\ Truthy(token)
             THEN LET client == Client(sid, token)
                      calls == << Call("Client", None,
                                       [sid |-> sid, token |-> token], Ok(client)),
                                  Call("accounts.fetch", client, [sid |-> sid], o2) >>
                  IN  CASE o2.kind = "ok" ->
                             [raised |-> FALSE, ret |-> client,
                              creds |-> CacheClient(creds, chat_id, client),
                              calls |-> calls]
                        [] o2.kind = TwilioRestException ->
                             [raised |-> FALSE, ret |-> None,
                              creds |-> EvictSession(creds, chat_id),
                              calls |-> calls]
                        [] OTHER ->
                             [raised |-> TRUE, ret |-> None,
                              creds |-> creds, calls |-> calls]
             ELSE [raised |-> FALSE, ret |-> None, creds |-> creds, calls |-> <<>>]
    ELSE [raised |-> FALSE, ret |-> None, creds |-> creds, calls |-> <<>>]

\* main.py 91-116, with the outcomes o1, o2 of the (at most two) probes
GetTwilioClientRun(creds, chat_id, o1, o2) ==
    LET first == ProbeCached(creds, chat_id, o1)
    IN  IF first.returned
        THEN [raised |-> first.raised, ret |-> first.ret,
              creds |-> first.creds, calls |-> first.calls]
        ELSE LET second == Reconstruct(first.creds, chat_id, o2)
             IN  [raised |-> second.raised, ret |-> second.ret,
                  creds |-> second.creds,
                  calls |-> first.calls \o second.calls]

\* every way a call of get_twilio_client(chat_id) can go from store creds
GetTwilioClientRuns(creds, chat_id) ==
    { GetTwilioClientRun(creds, chat_id, o1, o2) : o1, o2 \in ProbeOutcomes }

\* get_twilio_client(chat_id) called in run x: the runs that follow
get_twilio_client(x, chat_id) ==
    { [x EXCEPT !.creds = r.creds,
                !.calls = @ \o r.calls,
                !.resolves = Append(@, [chat_id |-> chat_id, pre |-> x.creds,
                                        post |-> r.creds, ret |-> r.ret,
                                        calls |-> r.calls, raised |-> r.raised]),
                !.raised = r.raised,
                !.ret = r.ret]
      : r \in GetTwilioClientRuns(x.creds, chat_id) }

---------------------------------------------------------------------------
(* The chat transport                                                      *)

NoMarkup == <<>>

\* update.message.reply_text / query.edit_message_text / query.message.reply_text
\* with a str as text
Send(x, via, text, markup) ==
    [x EXCEPT !.replies = Append(@, [via |-> via, text |-> text, markup |-> markup])]

\* the same call with whatever value the caller holds.  The transport library
\* takes a str; what it does with another value (serialise it and deliver
\* the serialised text, or refuse it and raise) is not fixed by this code, so
\* both outcomes are possible.
SendValue(x, via, value) ==
    IF value.t = "str"
    THEN {Send(x, via, value, NoMarkup)}
    ELSE {Send(x, via, value, NoMarkup), [x EXCEPT !.raised = TRUE]}


---------------------------------------------------------------------------
(* /configure                                                              *)

\* mutant: the length of the identifier is not checked
SidFormatOk_PrefixOnly(account_sid) == StartsWith(account_sid, "AC")

\* main.py 312
SidFormatOk(account_sid) ==
    StartsWith(account_sid, "AC") /\ Len(account_sid) = SID_LENGTH

\* mutant: the pair is updated in place, a cached handle stays in the record
StoreCredentials_KeepsClient(creds, chat_id, account_sid, auth_token) ==
    IF chat_id \in DOMAIN creds
    THEN DictSet(creds, chat_id,
                 DictSet(DictSet(creds[chat_id], "sid", account_sid),
                         "token", auth_token))
    ELSE DictSet(creds, chat_id, [sid |-> account_sid, token |-> auth_token])

\* main.py 320: the record is replaced as a whole
StoreCredentials(creds, chat_id, account_sid, auth_token) ==
    DictSet(creds, chat_id, [sid |-> account_sid, token |-> auth_token])

\* mutant: the test of the resolved client is inverted
ConfigureReply_Inverted(y) ==
    IF y.raised THEN y
    ELSE IF y.ret = None
         THEN Send(y, "reply_text", Msg("ConfiguredOk"), NoMarkup)
         ELSE Send(y, "reply_text", Msg("AuthenticationFailed"), NoMarkup)

\* main.py 322-329
ConfigureReply(y) ==
    IF y.raised THEN y
    ELSE IF y.ret # None
         THEN Send(y, "reply_text", Msg("ConfiguredOk"), NoMarkup)
         ELSE Send(y, "reply_text", Msg("AuthenticationFailed"), NoMarkup)

\* main.py 298-329
configure_twilio(creds, chat_id, args) ==
    LET x == Begin(creds)
    IN  IF Len(args) # 2
        THEN {Send(x, "reply_text", Msg("IncorrectUsage"), NoMarkup)}
        ELSE IF ~SidFormatOk(args[1])
        THEN {Send(x, "reply_text", Msg("InvalidSidFormat"), NoMarkup)}
        ELSE LET x1 == [x EXCEPT
                          !.creds = StoreCredentials(creds, chat_id, args[1], args[2]),
                          !.stored = TRUE]
             IN  { ConfigureReply(y) : y \in get_twilio_client(x1, chat_id) }

ConfigureArgs ==
    {<<>>} \cup { <<s>> : s \in {SidA, "ACaaaa"} }
           \cup { <<s, k>> : s \in Sids, k \in AuthTokens }
           \cup { <<s, "auth1", "extra">> : s \in {SidA, "ACaaaa"} }

---------------------------------------------------------------------------
(* str methods used by the handlers                                        *)

UpperLetters == "ABCDEFGHIJKLMNOPQRSTUVWXYZ"
LowerLetters == "abcdefghijklmnopqrstuvwxyz"
Digits == "0123456789"

CharAt(s, i) == SubSeq(s, i, i)
\* s.find(c) + 1 for a one-character c (0 when absent)
IndexIn(s, c) ==
    IF \E i \in 1..Len(s) : CharAt(s, i) = c
    THEN CHOOSE i \in 1..Len(s) : CharAt(s, i) = c
    ELSE 0

LowerChar(c) ==
    IF IndexIn(UpperLetters, c) > 0
    THEN CharAt(LowerLetters, IndexIn(UpperLetters, c)) ELSE c
UpperChar(c) ==
    IF IndexIn(LowerLetters, c) > 0
    THEN CharAt(UpperLetters, IndexIn(LowerLetters, c)) ELSE c

RECURSIVE Lower(_)
\* s.lower()
Lower(s) == IF s = "" THEN "" ELSE LowerChar(CharAt(s, 1)) \o Lower(SliceFrom(s, 1))

RECURSIVE Upper(_)
\* s.upper()
Upper(s) == IF s = "" THEN "" ELSE UpperChar(CharAt(s, 1)) \o Upper(SliceFrom(s, 1))

IsDigit(c) == IndexIn(Digits, c) > 0

RECURSIVE Grouped(_)
\* decimal digits, with single underscores allowed between two digits
Grouped(s) ==
    \/ s = ""
    \/ /\ IsDigit(CharAt(s, 1))
       /\ Grouped(SliceFrom(s, 1))
    \/ /\ CharAt(s, 1) = "_"
       /\ Len(s) >= 2
       /\ IsDigit(CharAt(s, 2))
       /\ Grouped(SliceFrom(s, 1))

RECURSIVE DigitsValue(_, _)
DigitsValue(s, acc) ==
    IF s = "" THEN acc
    ELSE IF CharAt(s, 1) = "_" THEN DigitsValue(SliceFrom(s, 1), acc)
    ELSE DigitsValue(SliceFrom(s, 1), 10 * acc + IndexIn(Digits, CharAt(s, 1)) - 1)

HasSign(s) == s # "" /\ CharAt(s, 1) \in {"+", "-"}
Unsigned(s) == IF HasSign(s) THEN SliceFrom(s, 1) ELSE s

\* int(s) raises ValueError unless s is an optional sign followed by decimal
\* digits, which may be grouped by single underscores (an argument of a
\* command holds no white space)
IsInt(s) ==
    /\ Unsigned(s) # ""
    /\ IsDigit(CharAt(Unsigned(s), 1))
    /\ Grouped(Unsigned(s))
\* int(s)
IntOf(s) ==
    IF CharAt(s, 1) = "-" THEN 0 - DigitsValue(Unsigned(s), 0)
    ELSE DigitsValue(Unsigned(s), 0)

---------------------------------------------------------------------------
(* What the provider returns                                               *)

\* an optional str argument: None or a str with its text
Text(s) == Str("text", [v |-> s])
TextOf(v) == v.arg.v

\* the i-th phone number of the provider's pool
PhoneNumber(i) == "+1555123000" \o ToString(i)

\* an owned number (IncomingPhoneNumberInstance)
IncomingNumber(phone_number, sid) ==
    [phone_number |-> phone_number, friendly_name |-> "name " \o phone_number,
     sid |-> sid]
\* a number for sale (LocalInstance)
AvailableNumber(phone_number) ==
    [phone_number |-> phone_number, friendly_name |-> "name " \o phone_number,
     region |-> "CA", locality |-> "San Francisco"]

\* at most MaxListed records come back from a listing
MaxListed == 2

RECURSIVE Filler(_)
\* a str of n characters
Filler(n) ==
    IF n = 0 THEN ""
    ELSE IF n % 2 = 1 THEN "x" \o Filler(n - 1)
    ELSE LET half == Filler(n \div 2) IN half \o half

\* the characters around the friendly name in the rendering of a one-record
\* list of owned numbers (main.py 436, 440-441, 454)
OwnedFrame == 26 + 3 + 4 + Len(PhoneNumber(1)) + 3 + 11 + Len("PN1") + 6 + 23

\* one owned number whose friendly name makes the rendered list n characters long
NamedToRender(n) ==
    [phone_number |-> PhoneNumber(1), friendly_name |-> Filler(n - OwnedFrame),
     sid |-> "PN1"]

\* a number for sale with the same long friendly name
LongAvailableNumber ==
    [phone_number |-> PhoneNumber(1),
     friendly_name |-> Filler(MAX_MESSAGE_LENGTH + 1 - OwnedFrame),
     region |-> "CA", locality |-> "San Francisco"]

\* the provider's records are strings of any length: next to the short
\* listings there are listings whose rendering is exactly as long as the
\* message ceiling, and one character longer
AvailableListings ==
    { List([i \in 1..k |-> AvailableNumber(PhoneNumber(i))]) : k \in 0..MaxListed }
    \cup { List(<<LongAvailableNumber>>) }
OwnedListings ==
    { List([i \in 1..k |-> IncomingNumber(PhoneNumber(i), "PN" \o ToString(i))])
      : k \in 0..MaxListed }
    \cup { List(<<NamedToRender(MAX_MESSAGE_LENGTH)>>),
           List(<<NamedToRender(MAX_MESSAGE_LENGTH + 1)>>) }
\* list(phone_number=n, limit=1): nothing, or the one owned number n under
\* one of the provider's identifiers
LookupListings(n) ==
    {List(<<>>)}
    \cup { List(<<IncomingNumber(n, "PN" \o ToString(i))>>) : i \in 1..MaxListed }

MessageInstance(to) ==
    [from_ |-> "+15550000000", direction |-> "inbound", status |-> "received",
     body |-> "hello", date_sent |-> None, sid |-> "SM1", to |-> to]
MessageListings(to) == { List(<<>>), List(<<MessageInstance(to)>>) }

\* 20003: authentication failure; 21452: number unavailable
OpFaults == RestFaults({20003}) \cup {UnexpectedFault}
BuyFaults == RestFaults({20003, CODE_NUMBER_UNAVAILABLE}) \cup {UnexpectedFault}

Returns(values) == { Ok(v) : v \in values }

\* mutant: a request refused for authentication evicts the sessions that hold
\* the client it was made through
Request_EvictsOnAuthFailure(x, op, client, arg, outcomes) ==
    IF client = None
    THEN { [x EXCEPT !.ret = UnexpectedFault] }
    ELSE { [x EXCEPT !.calls = Append(@, Call(op, client, arg, o)), !.ret = o,
                     !.creds = IF o.code = 20003
                               THEN [c \in { d \in DOMAIN x.creds :
                                               ~(/\ "client" \in DOMAIN x.creds[d]
                                                 /\ x.creds[d]["client"] = client) }
                                       |-> x.creds[c]]
                               ELSE @]
           : o \in outcomes }

\* a request made through client: with client None the attribute access
\* raises AttributeError before any request is made
Request(x, op, client, arg, outcomes) ==
    IF client = None
    THEN { [x EXCEPT !.ret = UnexpectedFault] }
    ELSE { [x EXCEPT !.calls = Append(@, Call(op, client, arg, o)), !.ret = o]
           : o \in outcomes }

\* an _internal_* operation is entered
Enter(x, op, client, arg) ==
    [x EXCEPT !.ops = Append(@, [op |-> op, client |-> client, arg |-> arg])]

\* the operation entered last returns value
Return(x, value) ==
    [x EXCEPT !.ret = value,
              !.returns = Append(@, [op |-> x.ops[Len(x.ops)].op, value |-> value])]

---------------------------------------------------------------------------
(* Provider operations                                                     *)

\* main.py 120-126
SearchParams(area_code, contains_pattern, zip_code) ==
    [limit |-> SEARCH_LIMIT,
     area_code |-> IF area_code # None /\ Truthy(TextOf(area_code))
                   THEN area_code ELSE None,
     contains |-> IF contains_pattern # None /\ Truthy(TextOf(contains_pattern))
                  THEN contains_pattern ELSE None,
     in_postal_code |-> IF zip_code # None /\ Truthy(TextOf(zip_code))
                        THEN zip_code ELSE None]

\* x or 'N/A'
OrNA(v) == IF v # None /\ Truthy(TextOf(v)) THEN v ELSE Text("N/A")

\* main.py 131-142
SearchResult(y, country_code, area_code, contains_pattern, zip_code) ==
    CASE y.ret.kind = "ok" ->
            IF y.ret.value.items = <<>>
            THEN Tuple(<<Str("NoNumbersFound",
                             [country_code |-> country_code,
                              area_code |-> OrNA(area_code),
                              pattern |-> OrNA(contains_pattern),
                              zip_code |-> OrNA(zip_code)]), None>>)
            ELSE Tuple(<<None, y.ret.value>>)
      [] y.ret.kind = TwilioRestException ->
            Tuple(<<Str("ErrorSearching", [code |-> y.ret.code]), None>>)
      [] OTHER -> Tuple(<<Msg("UnexpectedSearching"), None>>)

\* main.py 118-142
internal_search_numbers(x, client, country_code, area_code, contains_pattern, zip_code) ==
    LET params == SearchParams(area_code, contains_pattern, zip_code)
        x1 == Enter(x, "_internal_search_numbers", client,
                    [country_code |-> country_code, params |-> params])
    IN  { Return(y, SearchResult(y, country_code, area_code, contains_pattern, zip_code))
          : y \in Request(x1, "available_phone_numbers.local.list", client,
                          [country_code |-> country_code, params |-> params],
                          Returns(AvailableListings) \cup OpFaults) }

\* mutant: the hint is appended to every provider fault
BuyResult_AlwaysHint(y, phone_number_to_buy) ==
    CASE y.ret.kind = "ok" ->
            Str("Purchased", [number |-> y.ret.value.phone_number,
                              sid |-> y.ret.value.sid])
      [] y.ret.kind = TwilioRestException ->
            Str("ErrorBuying", [number |-> phone_number_to_buy,
                                code |-> y.ret.code,
                                hint |-> TRUE])
      [] OTHER -> Str("UnexpectedBuying", [number |-> phone_number_to_buy])

\* main.py 149-161
BuyResult(y, phone_number_to_buy) ==
    CASE y.ret.kind = "ok" ->
            Str("Purchased", [number |-> y.ret.value.phone_number,
                              sid |-> y.ret.value.sid])
      [] y.ret.kind = TwilioRestException ->
            Str("ErrorBuying", [number |-> phone_number_to_buy,
                                code |-> y.ret.code,
                                hint |-> y.ret.code = CODE_NUMBER_UNAVAILABLE])
      [] OTHER -> Str("UnexpectedBuying", [number |-> phone_number_to_buy])

\* main.py 144-161
internal_buy_number(x, client, phone_number_to_buy) ==
    LET x1 == Enter(x, "_internal_buy_number", client,
                    [phone_number |-> phone_number_to_buy])
    IN  { Return(y, BuyResult(y, phone_number_to_buy))
          : y \in Request(x1, "incoming_phone_numbers.create", client,
                          [phone_number |-> phone_number_to_buy],
                          Returns({IncomingNumber(phone_number_to_buy, "PN1")})
                              \cup BuyFaults) }

\* mutant: an empty listing is returned as a result like any other
ListResult_EmptyList(y) ==
    CASE y.ret.kind = "ok" -> Tuple(<<None, y.ret.value>>)
      [] y.ret.kind = TwilioRestException ->
            Tuple(<<Str("ErrorListing", [code |-> y.ret.code]), None>>)
      [] OTHER -> Tuple(<<Msg("UnexpectedListing"), None>>)

\* main.py 168-176
ListResult(y) ==
    CASE y.ret.kind = "ok" ->
            IF y.ret.value.items = <<>>
            THEN Tuple(<<Msg("NoOwnedNumbers"), None>>)
            ELSE Tuple(<<None, y.ret.value>>)
      [] y.ret.kind = TwilioRestException ->
            Tuple(<<Str("ErrorListing", [code |-> y.ret.code]), None>>)
      [] OTHER -> Tuple(<<Msg("UnexpectedListing"), None>>)

\* main.py 163-176
internal_list_my_numbers(x, client) ==
    LET x1 == Enter(x, "_internal_list_my_numbers", client, [limit |-> LIST_LIMIT])
    IN  { Return(y, ListResult(y))
          : y \in Request(x1, "incoming_phone_numbers.list", client,
                          [limit |-> LIST_LIMIT],
                          Returns(OwnedListings) \cup OpFaults) }

\* the value returned from an except clause of release / check_sms
\* main.py 189-194, 219-224
FaultResult(outcome, rest_id, unexpected_id, number) ==
    IF outcome.kind = TwilioRestException
    THEN Tuple(<<Str(rest_id, [number |-> number, code |-> outcome.code]), None>>)
    ELSE Str(unexpected_id, [number |-> number])

\* mutant: the identifier to delete does not come from the matched record
ReleaseSid_Fixed(numbers) == "PN1"

\* main.py 185: numbers[0].sid
ReleaseSid(numbers) == numbers[1].sid

\* main.py 186-188: the matched record's identifier is deleted
ReleaseMatched(y, client, phone_number_to_release) ==
    { Return(z, IF z.ret.kind = "ok"
                THEN Str("Released", [number |-> phone_number_to_release])
                ELSE FaultResult(z.ret, "ErrorReleasing", "UnexpectedReleasing",
                                 phone_number_to_release))
      : z \in Request(y, "incoming_phone_numbers.delete", client,
                      [sid |-> ReleaseSid(y.ret.value.items)],
                      Returns({None}) \cup OpFaults) }

\* main.py 178-194
internal_release_number(x, client, phone_number_to_release) ==
    LET x1 == Enter(x, "_internal_release_number", client,
                    [phone_number |-> phone_number_to_release])
    IN  UNION { IF y.ret.kind # "ok"
                THEN {Return(y, FaultResult(y.ret, "ErrorReleasing",
                                 "UnexpectedReleasing", phone_number_to_release))}
                ELSE IF y.ret.value.items = <<>>
                THEN {Return(y, Str("NotFoundInAccount",
                                    [number |-> phone_number_to_release]))}
                ELSE ReleaseMatched(y, client, phone_number_to_release)
              : y \in Request(x1, "incoming_phone_numbers.list", client,
                              [phone_number |-> phone_number_to_release, limit |-> 1],
                              Returns(LookupListings(phone_number_to_release))
                                  \cup OpFaults) }

\* main.py 204-218: the messages are listed and formatted
ListMessages(y, client, twilio_number, limit) ==
    { Return(z, IF z.ret.kind # "ok"
                THEN FaultResult(z.ret, "ErrorCheckingSms", "UnexpectedCheckingSms",
                                 twilio_number)
                ELSE IF z.ret.value.items = <<>>
                THEN Str("NoRecentSms", [number |-> twilio_number, limit |-> limit])
                ELSE Str("RecentSms", [number |-> twilio_number, limit |-> limit,
                                       messages |-> z.ret.value.items]))
      : z \in Request(y, "messages.list", client,
                      [to |-> twilio_number, limit |-> limit],
                      Returns(MessageListings(twilio_number)) \cup OpFaults) }

\* mutant: the messages are listed without the ownership lookup
internal_check_sms_NoLookup(x, client, twilio_number, limit) ==
    ListMessages(Enter(x, "_internal_check_sms", client,
                       [phone_number |-> twilio_number, limit |-> limit]),
                 client, twilio_number, limit)

\* main.py 196-224
internal_check_sms(x, client, twilio_number, limit) ==
    LET x1 == Enter(x, "_internal_check_sms", client,
                    [phone_number |-> twilio_number, limit |-> limit])
    IN  UNION { IF y.ret.kind # "ok"
                THEN {Return(y, FaultResult(y.ret, "ErrorCheckingSms",
                                 "UnexpectedCheckingSms", twilio_number))}
                ELSE IF y.ret.value.items = <<>>
                THEN {Return(y, Str("NotOwned", [number |-> twilio_number]))}
                ELSE ListMessages(y, client, twilio_number, limit)
              : y \in Request(x1, "incoming_phone_numbers.list", client,
                              [phone_number |-> twilio_number, limit |-> 1],
                              Returns(LookupListings(twilio_number)) \cup OpFaults) }

---------------------------------------------------------------------------
(* Decorators                                                              *)

\* the run is over: an exception was raised or a decorator has answered
Stopped(x) == x.raised \/ x.done

\* mutant: a user without a session is turned away without a message
require_twilio_config_Silent(x, chat_id) ==
    { IF y.raised THEN y
      ELSE IF y.ret = None
      THEN [y EXCEPT !.done = TRUE]
      ELSE y
      : y \in get_twilio_client(x, chat_id) }

\* main.py 227-242: the runs of the wrapper up to the call of the handler
require_twilio_config(x, chat_id) ==
    { IF y.raised THEN y
      ELSE IF y.ret = None
      THEN [Send(y, "reply_text", Msg("CredentialsNeeded"), NoMarkup)
               EXCEPT !.done = TRUE]
      ELSE y
      : y \in get_twilio_client(x, chat_id) }

\* mutant: the wrapper lets every caller through
admin_only_AllowsAll(x, chat_id) == x

\* main.py 244-253: the run of the wrapper up to the call of the handler
admin_only(x, chat_id) ==
    IF chat_id \notin ADMIN_CHAT_IDS
    THEN [Send([x EXCEPT !.logs = Append(@, [level |-> "warning",
                                             chat_id |-> chat_id])],
               "reply_text", Msg("AdminsOnly"), NoMarkup)
             EXCEPT !.done = TRUE]
    ELSE x

\* the operation's result is sent as the reply
ReplyResults(via, runs) ==
    UNION { SendValue(z, via, z.ret) : z \in runs }

---------------------------------------------------------------------------
(* Command handlers                                                        *)

\* main.py 256-272
start(creds, chat_id) ==
    {Send(Begin(creds), "reply_text", Msg("Welcome"),
          << <<[text |-> "Search Guide", callback_data |-> MAIN_MENU_CALLBACK_PREFIX \o "search_guide"]>>,
             <<[text |-> "List My Numbers", callback_data |-> MAIN_MENU_CALLBACK_PREFIX \o "my_numbers_action"]>>,
             <<[text |-> "Configure Guide", callback_data |-> MAIN_MENU_CALLBACK_PREFIX \o "configure_guide"]>>,
             <<[text |-> "Full Help", callback_data |-> MAIN_MENU_CALLBACK_PREFIX \o "help_overview"]>>,
             <<[text |-> "Owner Info", callback_data |-> MAIN_MENU_CALLBACK_PREFIX \o "owner_info"]>> >>)}

\* main.py 274-296
help_command(creds, chat_id) ==
    {Send(Begin(creds), "reply_text",
          Str("Help", [admin_line |-> chat_id \in ADMIN_CHAT_IDS]), NoMarkup)}

\* main.py 526-528
owner_info_command(creds, chat_id) ==
    {Send(Begin(creds), "reply_text", Msg("OwnerDetails"), NoMarkup)}

\* main.py 530-538
admin_stats_command(creds, chat_id) ==
    LET x == admin_only(Begin(creds), chat_id)
    IN  IF Stopped(x) THEN {x}
        ELSE {Send(x, "reply_text",
                   Str("AdminStats", [active_configs |-> Cardinality(DOMAIN x.creds)]),
                   NoMarkup)}

\* mutant: the argument is compared without being lower-cased
normalize_search_arg_CaseSensitive(arg_val) ==
    IF arg_val # None /\ Truthy(TextOf(arg_val))
       /\ TextOf(arg_val) \in {"none", "_", "-"}
    THEN None
    ELSE arg_val

\* main.py 331-335
normalize_search_arg(arg_val) ==
    IF arg_val # None /\ Truthy(TextOf(arg_val))
       /\ Lower(TextOf(arg_val)) \in {"none", "_", "-"}
    THEN None
    ELSE arg_val

\* args[i] if len(args) > i else None   (i counted from 0)
ArgOrNone(args, i) == IF Len(args) > i THEN Text(args[i + 1]) ELSE None

\* main.py 385: one Buy button per search hit
BuyKeyboard(numbers) ==
    [i \in 1..Len(numbers) |->
        << [text |-> "Buy " \o numbers[i].friendly_name,
            callback_data |-> BUY_CALLBACK_PREFIX \o numbers[i].phone_number] >>]

\* main.py 370-393
SearchReply(z) ==
    LET error_msg == z.ret.items[1]
        numbers == z.ret.items[2]
    IN  IF error_msg # None
        THEN Send(z, "reply_text", error_msg, NoMarkup)
        ELSE IF numbers = None \/ numbers.items = <<>>
        THEN Send(z, "reply_text", Msg("NoNumbersMatching"), NoMarkup)
        ELSE Send(z, "reply_text",
                  Str("FoundNumbers", [items |-> numbers.items, footer |-> TRUE]),
                  BuyKeyboard(numbers.items))

\* main.py 339-393
SearchBody(y, args) ==
    LET client == y.ret
    IN  IF Len(args) < 1
        THEN {Send(y, "reply_text", Msg("SearchUsage"), NoMarkup)}
        ELSE LET country_code == Upper(args[1])
                 area_code == normalize_search_arg(ArgOrNone(args, 1))
                 contains_pattern == normalize_search_arg(ArgOrNone(args, 2))
                 zip_code_arg == normalize_search_arg(ArgOrNone(args, 3))
                 y1 == Send(y, "reply_text",
                            Str("Searching",
                                [country_code |-> country_code,
                                 area_code |-> area_code,
                                 pattern |-> contains_pattern,
                                 zip_code |-> zip_code_arg]),
                            NoMarkup)
             IN  { SearchReply(z)
                   : z \in internal_search_numbers(y1, client, country_code,
                               area_code, contains_pattern, zip_code_arg) }

\* main.py 337-393: the decorated handler
search_available_numbers_command(creds, chat_id, args) ==
    UNION { IF Stopped(x) THEN {x}
            ELSE UNION { IF y.raised THEN {y} ELSE SearchBody(y, args)
                         : y \in get_twilio_client(x, chat_id) }
            : x \in require_twilio_config(Begin(creds), chat_id) }

\* mutant: the "+" prefix of the number is not checked
BuyBody_NoPlusCheck(y, args) ==
    LET client == y.ret
    IN  IF Len(args) # 1
        THEN {Send(y, "reply_text", Msg("BuyUsage"), NoMarkup)}
        ELSE ReplyResults("reply_text",
                 internal_buy_number(
                     Send(y, "reply_text", Str("AttemptingToBuy", [number |-> args[1]]),
                          NoMarkup),
                     client, args[1]))

\* main.py 397-420
BuyBody(y, args) ==
    LET client == y.ret
    IN  IF Len(args) # 1
        THEN {Send(y, "reply_text", Msg("BuyUsage"), NoMarkup)}
        ELSE IF ~StartsWith(args[1], "+")
        THEN {Send(y, "reply_text", Msg("InvalidPhoneNumberFormat"), NoMarkup)}
        ELSE ReplyResults("reply_text",
                 internal_buy_number(
                     Send(y, "reply_text", Str("AttemptingToBuy", [number |-> args[1]]),
                          NoMarkup),
                     client, args[1]))

\* main.py 395-420: the decorated handler
buy_number_command(creds, chat_id, args) ==
    UNION { IF Stopped(x) THEN {x}
            ELSE UNION { IF y.raised THEN {y} ELSE BuyBody(y, args)
                         : y \in get_twilio_client(x, chat_id) }
            : x \in require_twilio_config(Begin(creds), chat_id) }

\* mutant: every row carries the tokens of the first record
OwnedKeyboard_FirstNumber(numbers) ==
    [i \in 1..Len(numbers) |->
        << [text |-> "Release",
            callback_data |-> RELEASE_CALLBACK_PREFIX \o numbers[1].phone_number],
           [text |-> "Check SMS",
            callback_data |-> CHECKSMS_CALLBACK_PREFIX \o numbers[1].phone_number] >>]

\* main.py 444-445, 603-604: a Release and a Check SMS button per owned number
OwnedKeyboard(numbers) ==
    [i \in 1..Len(numbers) |->
        << [text |-> "Release",
            callback_data |-> RELEASE_CALLBACK_PREFIX \o numbers[i].phone_number],
           [text |-> "Check SMS",
            callback_data |-> CHECKSMS_CALLBACK_PREFIX \o numbers[i].phone_number] >>]

RECURSIVE SumLen(_, _)
\* the characters of the blocks of records i..Len(numbers) (main.py 441-442)
SumLen(numbers, i) ==
    IF i > Len(numbers) THEN 0
    ELSE 3 + Len(numbers[i].friendly_name) + 4 + Len(numbers[i].phone_number) + 3
         + 11 + Len(numbers[i].sid) + 6 + SumLen(numbers, i + 1)

\* len(response_text + "\n👇 Manage your numbers:")
FullMessageLen(numbers) == 26 + SumLen(numbers, 1) + 23

\* mutant: the list is sent in one message, whatever its length
SendOwnedList_NeverSplits(z, numbers) ==
    Send(z, "reply_text",
         Str("YourNumbers", [items |-> numbers, footer |-> TRUE]),
         OwnedKeyboard(numbers))

\* main.py 453-459
SendOwnedList(z, numbers) ==
    IF FullMessageLen(numbers) > MAX_MESSAGE_LENGTH
    THEN Send(Send(z, "reply_text",
                   Str("YourNumbers", [items |-> numbers, footer |-> FALSE]), NoMarkup),
              "reply_text", Msg("ManageYourNumbers"), OwnedKeyboard(numbers))
    ELSE Send(z, "reply_text",
              Str("YourNumbers", [items |-> numbers, footer |-> TRUE]),
              OwnedKeyboard(numbers))

\* main.py 430-459
ListReply(z) ==
    LET error_msg == z.ret.items[1]
        numbers == z.ret.items[2]
    IN  IF error_msg # None
        THEN Send(z, "reply_text", error_msg, NoMarkup)
        ELSE IF numbers = None \/ numbers.items = <<>>
        THEN Send(z, "reply_text", Msg("NoOwnedNumbers"), NoMarkup)
        ELSE SendOwnedList(z, numbers.items)

\* main.py 424-459
ListBody(y) ==
    { ListReply(z)
      : z \in internal_list_my_numbers(
                  Send(y, "reply_text", Msg("FetchingNumbers"), NoMarkup), y.ret) }

\* main.py 422-459: the decorated handler
list_my_numbers_command(creds, chat_id) ==
    UNION { IF Stopped(x) THEN {x}
            ELSE UNION { IF y.raised THEN {y} ELSE ListBody(y)
                         : y \in get_twilio_client(x, chat_id) }
            : x \in require_twilio_config(Begin(creds), chat_id) }

\* main.py 464-486
ReleaseBody(y, args) ==
    LET client == y.ret
    IN  IF Len(args) # 1
        THEN {Send(y, "reply_text", Msg("ReleaseUsage"), NoMarkup)}
        ELSE IF ~StartsWith(args[1], "+")
        THEN {Send(y, "reply_text", Msg("InvalidPhoneNumberFormat"), NoMarkup)}
        ELSE ReplyResults("reply_text",
                 internal_release_number(
                     Send(y, "reply_text",
                          Str("AttemptingToRelease", [number |-> args[1]]), NoMarkup),
                     client, args[1]))

\* main.py 462-486: the decorated handler
release_number_command(creds, chat_id, args) ==
    UNION { IF Stopped(x) THEN {x}
            ELSE UNION { IF y.raised THEN {y} ELSE ReleaseBody(y, args)
                         : y \in get_twilio_client(x, chat_id) }
            : x \in require_twilio_config(Begin(creds), chat_id) }

\* mutant: the bounds of the range are excluded
LimitInRange_Exclusive(limit) == MIN_SMS_LIMIT < limit /\ limit < MAX_SMS_LIMIT

\* main.py 507
LimitInRange(limit) == MIN_SMS_LIMIT <= limit /\ limit <= MAX_SMS_LIMIT

\* main.py 514-524
CheckSmsNumber(y, client, twilio_number, limit) ==
    IF ~StartsWith(twilio_number, "+")
    THEN {Send(y, "reply_text", Msg("InvalidPhoneNumberFormat"), NoMarkup)}
    ELSE ReplyResults("reply_text",
             internal_check_sms(
                 Send(y, "reply_text",
                      Str("FetchingSms", [number |-> twilio_number, limit |-> limit]),
                      NoMarkup),
                 client, twilio_number, limit))

\* main.py 490-524
CheckSmsBody(y, args) ==
    LET client == y.ret
    IN  IF Len(args) < 1
        THEN {Send(y, "reply_text", Msg("CheckSmsUsage"), NoMarkup)}
        ELSE IF Len(args) > 1
        THEN IF ~IsInt(args[2])
             THEN {Send(y, "reply_text", Msg("InvalidLimit"), NoMarkup)}
             ELSE IF ~LimitInRange(IntOf(args[2]))
             THEN {Send(y, "reply_text", Msg("LimitOutOfRange"), NoMarkup)}
             ELSE CheckSmsNumber(y, client, args[1], IntOf(args[2]))
        ELSE CheckSmsNumber(y, client, args[1], DEFAULT_SMS_LIMIT)

\* main.py 488-524: the decorated handler
check_sms_command(creds, chat_id, args) ==
    UNION { IF Stopped(x) THEN {x}
            ELSE UNION { IF y.raised THEN {y} ELSE CheckSmsBody(y, args)
                         : y \in get_twilio_client(x, chat_id) }
            : x \in require_twilio_config(Begin(creds), chat_id) }

---------------------------------------------------------------------------
(* Callback query handler                                                  *)

\* main.py 549-554
actions_requiring_client ==
    { BUY_CALLBACK_PREFIX, RELEASE_CALLBACK_PREFIX, CHECKSMS_CALLBACK_PREFIX,
      MAIN_MENU_CALLBACK_PREFIX \o "my_numbers_action" }

\* mutant: the release prefix is missing from actions_requiring_client
NeedsClient_WithoutRelease(data) ==
    \E prefix \in actions_requiring_client \ {RELEASE_CALLBACK_PREFIX} :
        StartsWith(data, prefix)

\* main.py 556
NeedsClient(data) == \E prefix \in actions_requiring_client : StartsWith(data, prefix)

\* data.startswith(PREFIX)   main.py 571, 629, 635, 641
Matches(data, prefix) == StartsWith(data, prefix)

\* mutant: every branch strips the length of the buy prefix
Payload_FixedWidth(data, prefix) == SliceFrom(data, Len(BUY_CALLBACK_PREFIX))

\* data[len(PREFIX):]        main.py 572, 630, 636, 642
Payload(data, prefix) == SliceFrom(data, Len(prefix))

Routed(x, prefix, payload) ==
    [x EXCEPT !.route = Append(@, [prefix |-> prefix, payload |-> payload])]

\* main.py 589-609: the list is sent in one message, whatever its length
ButtonListReply(z) ==
    LET error_msg == z.ret.items[1]
        numbers == z.ret.items[2]
    IN  IF error_msg # None
        THEN Send(z, "message.reply_text", error_msg, NoMarkup)
        ELSE IF numbers = None \/ numbers.items = <<>>
        THEN Send(z, "message.reply_text", Msg("NoOwnedNumbers"), NoMarkup)
        ELSE Send(z, "message.reply_text",
                  Str("YourNumbers", [items |-> numbers.items, footer |-> TRUE]),
                  OwnedKeyboard(numbers.items))

\* main.py 572-627
MenuBranch(x, client, action) ==
    CASE action = "search_guide" ->
            {Send(x, "edit_message_text", Msg("SearchGuide"), NoMarkup)}
      [] action = "my_numbers_action" ->
            { ButtonListReply(z)
              : z \in internal_list_my_numbers(
                          Send(x, "edit_message_text", Msg("FetchingNumbers"), NoMarkup),
                          client) }
      [] action = "configure_guide" ->
            {Send(x, "edit_message_text", Msg("ConfigureGuide"), NoMarkup)}
      [] action = "help_overview" ->
            {Send(x, "edit_message_text", Msg("HelpOverview"), NoMarkup)}
      [] action = "owner_info" ->
            {Send(x, "edit_message_text", Msg("OwnerDetails"), NoMarkup)}
      [] OTHER -> {x}

\* main.py 571-646
ButtonDispatch(x, client, data) ==
    IF Matches(data, MAIN_MENU_CALLBACK_PREFIX)
    THEN LET action == Payload(data, MAIN_MENU_CALLBACK_PREFIX)
         IN  MenuBranch(Routed(x, MAIN_MENU_CALLBACK_PREFIX, action), client, action)
    ELSE IF Matches(data, BUY_CALLBACK_PREFIX)
    THEN LET phone_number_to_buy == Payload(data, BUY_CALLBACK_PREFIX)
         IN  ReplyResults("message.reply_text",
                 internal_buy_number(
                     Send(Routed(x, BUY_CALLBACK_PREFIX, phone_number_to_buy),
                          "edit_message_text",
                          Str("ProcessingPurchase", [number |-> phone_number_to_buy]),
                          NoMarkup),
                     client, phone_number_to_buy))
    ELSE IF Matches(data, RELEASE_CALLBACK_PREFIX)
    THEN LET phone_number_to_release == Payload(data, RELEASE_CALLBACK_PREFIX)
         IN  ReplyResults("message.reply_text",
                 internal_release_number(
                     Send(Routed(x, RELEASE_CALLBACK_PREFIX, phone_number_to_release),
                          "edit_message_text",
                          Str("ProcessingRelease", [number |-> phone_number_to_release]),
                          NoMarkup),
                     client, phone_number_to_release))
    ELSE IF Matches(data, CHECKSMS_CALLBACK_PREFIX)
    THEN LET phone_number_for_sms == Payload(data, CHECKSMS_CALLBACK_PREFIX)
         IN  ReplyResults("message.reply_text",
                 internal_check_sms(
                     Send(Routed(x, CHECKSMS_CALLBACK_PREFIX, phone_number_for_sms),
                          "edit_message_text",
                          Str("FetchingSms", [number |-> phone_number_for_sms,
                                              limit |-> DEFAULT_SMS_LIMIT]),
                          NoMarkup),
                     client, phone_number_for_sms, DEFAULT_SMS_LIMIT))
    ELSE {x}

\* main.py 541-646
button_callback_handler(creds, chat_id, data) ==
    LET x == [Begin(creds) EXCEPT !.answered = TRUE]
    IN  IF NeedsClient(data)
        THEN UNION { IF y.raised THEN {y}
                     ELSE IF y.ret = None
                     THEN {Send(y, "edit_message_text", Msg("CredentialsNeeded"),
                                NoMarkup)}
                     ELSE ButtonDispatch(y, y.ret, data)
                     : y \in get_twilio_client(x, chat_id) }
        ELSE ButtonDispatch(x, None, data)

---------------------------------------------------------------------------
(* Inputs of the events                                                    *)

Prefixes ==
    { BUY_CALLBACK_PREFIX, RELEASE_CALLBACK_PREFIX, CHECKSMS_CALLBACK_PREFIX,
      MAIN_MENU_CALLBACK_PREFIX }

PhoneArgs ==
    { <<>>, <<PhoneNumber(1)>>, <<"15551230001">>, <<PhoneNumber(1), "extra">> }

CheckSmsArgs ==
    { <<>>, <<PhoneNumber(1)>>, <<"15551230001">>, <<"15551230001", "0">> }
    \cup { <<PhoneNumber(1), l>> : l \in {"0", "1", "7", "20", "21", "abc", "-1", "+7", "1_0", "1.5"} }
    \cup { <<PhoneNumber(1), "20", "extra">> }

SearchArgs ==
    { <<>>, <<"us">>, <<"US", "415">>, <<"US", "none", "_", "-">>,
      <<"us", "-", "NONE", "_">>,
      <<"US", "NONE", "shop", "94107">>, <<"GB", "None", "-">> }

\* what a button can carry after its prefix
Payloads ==
    { "", PhoneNumber(1), "15551230001", "buy_" \o PhoneNumber(1),
      "menu_owner_info", "x_release_sms_", "unknown" }

MenuActions ==
    { "search_guide", "my_numbers_action", "configure_guide", "help_overview",
      "owner_info", "my_numbers_actions" }

ButtonData ==
    { p \o s : p \in Prefixes, s \in Payloads }
    \cup { MAIN_MENU_CALLBACK_PREFIX \o a : a \in MenuActions }
    \cup { "noop", "buy", "Xbuy_" \o PhoneNumber(1), "BUY_" \o PhoneNumber(1) }

---------------------------------------------------------------------------
(* Events                                                                  *)

\* in run x a probe of a client built from the pair now stored succeeded
ProbeSucceeded(x, chat_id) ==
    \E i \in DOMAIN x.calls :
        /\ x.calls[i].op = "accounts.fetch"
        /\ x.calls[i].outcome.kind = "ok"
        /\ x.calls[i].client = Client(x.creds[chat_id]["sid"], x.creds[chat_id]["token"])

\* the history variable after run x of an event of chat_id
Validated(x, chat_id) ==
    [c \in ChatIds |->
        IF c \notin DOMAIN x.creds THEN FALSE
        ELSE IF c # chat_id THEN validated[c]
        ELSE (~x.stored /\ validated[c]) \/ ProbeSucceeded(x, chat_id)]

\* no event is being handled: the update loop waits for the next update
Idle ==
    [handler |-> "none", chat_id |-> 0, args |-> <<>>, data |-> "",
             pre |-> <<>>, calls |-> <<>>, resolves |-> <<>>, replies |-> <<>>,
             logs |-> <<>>, ops |-> <<>>, returns |-> <<>>, stored |-> FALSE, answered |-> FALSE,
             route |-> <<>>, raised |-> FALSE]

\* one inbound event handled to its end by run x
Handled(handler, chat_id, args, data, x) ==
    /\ user_twilio_credentials' = x.creds
    /\ validated' = Validated(x, chat_id)
    /\ ev' = [handler |-> handler, chat_id |-> chat_id, args |-> args,
              data |-> data, pre |-> user_twilio_credentials,
              calls |-> x.calls, resolves |-> x.resolves,
              replies |-> x.replies, logs |-> x.logs, ops |-> x.ops,
              returns |-> x.returns,
              stored |-> x.stored, answered |-> x.answered, route |-> x.route,
              raised |-> x.raised]
    /\ UNCHANGED <<waiting, tasks, finished>>

\* no update (or no ended event) is at hand
NoUpdate == [handler |-> "none", chat_id |-> 0, args |-> <<>>, data |-> ""]

Init ==
    /\ user_twilio_credentials = <<>>
    /\ validated = [c \in ChatIds |-> FALSE]
    /\ ev = Idle
    /\ waiting = NoUpdate
    /\ tasks = {}
    /\ finished = [update |-> NoUpdate, sent |-> 0, raised |-> FALSE]

Start ==
    /\ ev = Idle
    /\ \E chat_id \in ChatIds :
          \E x \in start(user_twilio_credentials, chat_id) :
              Handled("start", chat_id, <<>>, "", x)

Help ==
    /\ ev = Idle
    /\ \E chat_id \in ChatIds :
          \E x \in help_command(user_twilio_credentials, chat_id) :
              Handled("help_command", chat_id, <<>>, "", x)

Configure ==
    /\ ev = Idle
    /\ \E chat_id \in ChatIds, args \in ConfigureArgs :
          \E x \in configure_twilio(user_twilio_credentials, chat_id, args) :
              Handled("configure_twilio", chat_id, args, "", x)

SearchNumbers ==
    /\ ev = Idle
    /\ \E chat_id \in ChatIds, args \in SearchArgs :
          \E x \in search_available_numbers_command(user_twilio_credentials, chat_id, args) :
              Handled("search_available_numbers_command", chat_id, args, "", x)

BuyNumber ==
    /\ ev = Idle
    /\ \E chat_id \in ChatIds, args \in PhoneArgs :
          \E x \in buy_number_command(user_twilio_credentials, chat_id, args) :
              Handled("buy_number_command", chat_id, args, "", x)

MyNumbers ==
    /\ ev = Idle
    /\ \E chat_id \in ChatIds :
          \E x \in list_my_numbers_command(user_twilio_credentials, chat_id) :
              Handled("list_my_numbers_command", chat_id, <<>>, "", x)

ReleaseNumber ==
    /\ ev = Idle
    /\ \E chat_id \in ChatIds, args \in PhoneArgs :
          \E x \in release_number_command(user_twilio_credentials, chat_id, args) :
              Handled("release_number_command", chat_id, args, "", x)

CheckSms ==
    /\ ev = Idle
    /\ \E chat_id \in ChatIds, args \in CheckSmsArgs :
          \E x \in check_sms_command(user_twilio_credentials, chat_id, args) :
              Handled("check_sms_command", chat_id, args, "", x)

OwnerInfo ==
    /\ ev = Idle
    /\ \E chat_id \in ChatIds :
          \E x \in owner_info_command(user_twilio_credentials, chat_id) :
              Handled("owner_info_command", chat_id, <<>>, "", x)

AdminStats ==
    /\ ev = Idle
    /\ \E chat_id \in ChatIds :
          \E x \in admin_stats_command(user_twilio_credentials, chat_id) :
              Handled("admin_stats_command", chat_id, <<>>, "", x)

ButtonCallback ==
    /\ ev = Idle
    /\ \E chat_id \in ChatIds, data \in ButtonData :
          \E x \in button_callback_handler(user_twilio_credentials, chat_id, data) :
              Handled("button_callback_handler", chat_id, <<>>, data, x)

\* main.py 678: the handler has returned (or its exception was logged by the
\* application) and the update loop takes the next update
NextUpdate ==
    /\ ev # Idle
    /\ ev' = Idle
    /\ UNCHANGED <<user_twilio_credentials, validated, waiting, tasks, finished>>

\* updates are handled one at a time (main.py 659: no concurrent_updates)
Next ==
    \/ Start
    \/ Help
    \/ Configure
    \/ SearchNumbers
    \/ BuyNumber
    \/ MyNumbers
    \/ ReleaseNumber
    \/ CheckSms
    \/ OwnerInfo
    \/ AdminStats
    \/ ButtonCallback
    \/ NextUpdate

Spec == Init /\ [][Next]_vars

---------------------------------------------------------------------------
(* Vocabulary of the properties                                            *)

Reply(via, text) == [via |-> via, text |-> text, markup |-> NoMarkup]

\* the record of chat_id in store creds, without its cached handle
PairOf(creds, chat_id) ==
    [sid |-> creds[chat_id]["sid"], token |-> creds[chat_id]["token"]]

\* store creds without the record of chat_id
Without(creds, chat_id) == [c \in DOMAIN creds \ {chat_id} |-> creds[c]]

\* r is a call of get_twilio_client that probed a cached handle with outcome kind
CachedProbe(r, kind) ==
    /\ HasCachedClient(r.pre, r.chat_id)
    /\ r.calls # <<>>
    /\ r.calls[1].op = "accounts.fetch"
    /\ r.calls[1].outcome.kind = kind

\* r is a call of get_twilio_client whose last step was the probe, with outcome
\* kind, of a client it had just constructed
FreshProbe(r, kind) ==
    /\ Len(r.calls) >= 2
    /\ r.calls[Len(r.calls) - 1].op = "Client"
    /\ r.calls[Len(r.calls)].op = "accounts.fetch"
    /\ r.calls[Len(r.calls)].outcome.kind = kind

Resolves == { ev.resolves[i] : i \in DOMAIN ev.resolves }

ConfigureWith2Args == ev.handler = "configure_twilio" /\ Len(ev.args) = 2

---------------------------------------------------------------------------
(* C1 *)

\* the identifier does not start with "AC" or is not exactly 34 characters long
MalformedId(s) == Len(s) # 34 \/ Len(s) < 2 \/ SubSeq(s, 1, 2) # "AC"

\* C1: a configure event whose account identifier is malformed (wrong prefix or
\* wrong length) is answered with the format error (with the usage message when
\* the argument count is not two), makes no provider call and constructs no
\* client, and leaves the session store exactly as it was.
C1_MalformedIdRejected ==
    (ev.handler = "configure_twilio" /\ Len(ev.args) >= 1 /\ MalformedId(ev.args[1]))
    => /\ ev.replies = << Reply("reply_text",
                                IF Len(ev.args) = 2 THEN Msg("InvalidSidFormat")
                                ELSE Msg("IncorrectUsage")) >>
       /\ ev.calls = <<>>
       /\ ev.resolves = <<>>
       /\ ~ev.raised
       /\ user_twilio_credentials = ev.pre

\* a malformed identifier was submitted by a user who had a validated session
C1_Witness ==
    /\ ConfigureWith2Args
    /\ MalformedId(ev.args[1])
    /\ HasCachedClient(ev.pre, ev.chat_id)
    /\ ev.replies = <<Reply("reply_text", Msg("InvalidSidFormat"))>>

---------------------------------------------------------------------------
(* C2 *)

AuthRequiredCommands ==
    { "search_available_numbers_command", "buy_number_command",
      "list_my_numbers_command", "release_number_command", "check_sms_command" }

AuthRequiredButton ==
    /\ ev.handler = "button_callback_handler"
    /\ \E s \in Payloads \cup {""} :
          ev.data \in { "buy_" \o s, "release_" \o s, "sms_" \o s,
                        "menu_my_numbers_action" \o s }

\* C2: for a user with no stored session record, every auth-required command
\* and button event ends with the "configure first" message, and no provider
\* operation and no account probe is invoked.
C2_NoSessionShortCircuits ==
    ((ev.handler \in AuthRequiredCommands \/ AuthRequiredButton)
        /\ ev.chat_id \notin DOMAIN ev.pre)
    => /\ ev.replies \in { << Reply(via, Msg("CredentialsNeeded")) >>
                           : via \in {"reply_text", "edit_message_text"} }
       /\ ev.calls = <<>>
       /\ ev.ops = <<>>
       /\ ~ev.raised
       /\ user_twilio_credentials = ev.pre

\* a release button was pressed by a user with no session
C2_Witness ==
    /\ ev.handler = "button_callback_handler"
    /\ ev.data = "release_" \o PhoneNumber(1)
    /\ ev.chat_id \notin DOMAIN ev.pre
    /\ ev.replies = <<Reply("edit_message_text", Msg("CredentialsNeeded"))>>

---------------------------------------------------------------------------
(* C3 *)

\* C3: when the probe of the client newly constructed from the stored pair
\* fails with a provider fault, get_twilio_client removes the whole record of
\* that user and returns None; a further get_twilio_client for that user then
\* returns None without any provider call.
C3_FailedFreshProbeEvicts ==
    \A r \in Resolves :
        (r.chat_id \in DOMAIN r.pre /\ FreshProbe(r, TwilioRestException))
        => /\ r.post = Without(r.pre, r.chat_id)
           /\ r.ret = None
           /\ ~r.raised
           /\ \A again \in GetTwilioClientRuns(r.post, r.chat_id) :
                 again.ret = None /\ again.calls = <<>> /\ again.creds = r.post

\* a stale cached handle and then the rebuilt client both failed their probes,
\* and the record is gone after the event
C3_Witness ==
    /\ ev.handler = "buy_number_command"
    /\ Len(ev.resolves) = 1
    /\ CachedProbe(ev.resolves[1], TwilioRestException)
    /\ FreshProbe(ev.resolves[1], TwilioRestException)
    /\ ev.chat_id \notin DOMAIN user_twilio_credentials

---------------------------------------------------------------------------
(* C4 *)

\* C4: when the probe of a cached handle fails with a provider fault, the
\* handle is removed and the stored pair kept, a new client is constructed from
\* that same pair and probed; if that probe succeeds the new handle is cached
\* and returned, if it fails with a provider fault the record is evicted.
C4_StaleHandleFallback ==
    \A r \in Resolves :
        CachedProbe(r, TwilioRestException)
        => LET pair == PairOf(r.pre, r.chat_id)
               fresh == Client(pair.sid, pair.token)
           IN  /\ Len(r.calls) = 3
               /\ r.calls[1].client = r.pre[r.chat_id]["client"]
               /\ r.calls[2] = Call("Client", None, pair, Ok(fresh))
               /\ r.calls[3].op = "accounts.fetch"
               /\ r.calls[3].client = fresh
               /\ (r.calls[3].outcome.kind = "ok"
                     => /\ r.ret = fresh
                        /\ r.post = DictSet(r.pre, r.chat_id,
                                            [sid |-> pair.sid, token |-> pair.token,
                                             client |-> fresh]))
               /\ (r.calls[3].outcome.kind = TwilioRestException
                     => r.ret = None /\ r.post = Without(r.pre, r.chat_id))
               /\ (r.calls[3].outcome.kind = OtherException
                     => /\ r.raised
                        /\ r.post = DictSet(r.pre, r.chat_id, pair))

\* a stale cached handle was replaced by a rebuilt one whose probe succeeded
C4_Witness ==
    \E r \in Resolves :
        /\ CachedProbe(r, TwilioRestException)
        /\ FreshProbe(r, "ok")
        /\ HasCachedClient(r.post, r.chat_id)
        /\ r.ret # None

---------------------------------------------------------------------------
(* C5 *)

\* C5: when a cached handle exists and its probe succeeds, get_twilio_client
\* returns that handle, constructs no client, makes exactly one provider call
\* (the probe) and leaves the session store unchanged.
C5_ValidHandleReused ==
    \A r \in Resolves :
        CachedProbe(r, "ok")
        => /\ r.ret = r.pre[r.chat_id]["client"]
           /\ r.calls = << Call("accounts.fetch", r.pre[r.chat_id]["client"],
                                [sid |-> r.pre[r.chat_id]["sid"]], Ok(None)) >>
           /\ r.post = r.pre
           /\ ~r.raised

\* both the decorator's and the handler's get_twilio_client reused the handle
C5_Witness ==
    /\ ev.handler = "list_my_numbers_command"
    /\ Len(ev.resolves) = 2
    /\ CachedProbe(ev.resolves[1], "ok")
    /\ CachedProbe(ev.resolves[2], "ok")
    /\ ev.resolves[2].ret = ev.pre[ev.chat_id]["client"]

---------------------------------------------------------------------------
(* C6 *)

\* the provider rejected the pair submitted by a well-formed /configure
ConfigureRejected ==
    /\ ConfigureWith2Args
    /\ ~MalformedId(ev.args[1])
    /\ Len(ev.resolves) = 1
    /\ FreshProbe(ev.resolves[1], TwilioRestException)

\* C6 as stated: after a well-formed /configure that the provider rejects, the
\* handler reports authentication failure and the submitted pair is still
\* stored in the user's record.
C6_RejectedPairStaysStored ==
    ConfigureRejected
    => /\ ev.replies = <<Reply("reply_text", Msg("AuthenticationFailed"))>>
       /\ ev.chat_id \in DOMAIN user_twilio_credentials
       /\ PairOf(user_twilio_credentials, ev.chat_id)
              = [sid |-> ev.args[1], token |-> ev.args[2]]

\* C6 amended: after a well-formed /configure that the provider rejects, the
\* handler reports authentication failure and the user has no session record
\* left: the submitted pair and any earlier record of that user are removed,
\* the other users' records are untouched.
C6_RejectedPairIsEvicted ==
    ConfigureRejected
    => /\ ev.replies = <<Reply("reply_text", Msg("AuthenticationFailed"))>>
       /\ ev.stored
       /\ user_twilio_credentials = Without(ev.pre, ev.chat_id)
       /\ ~ev.raised

\* a user with a validated session submitted a pair that the provider rejected
C6_Witness ==
    /\ ConfigureRejected
    /\ HasCachedClient(ev.pre, ev.chat_id)
    /\ ev.chat_id \notin DOMAIN user_twilio_credentials
    /\ ev.replies = <<Reply("reply_text", Msg("AuthenticationFailed"))>>

---------------------------------------------------------------------------
(* C7 *)

\* C7: a /configure with exactly two arguments, a well-formed identifier and a
\* pair the provider accepts leaves the user's record holding exactly that
\* identifier, that secret and a handle built from them, and answers with the
\* success message; the success message is sent only when get_twilio_client
\* returned a handle.
C7_AcceptedPairIsCached ==
    /\ (ConfigureWith2Args /\ ~MalformedId(ev.args[1])
           /\ Len(ev.resolves) = 1 /\ FreshProbe(ev.resolves[1], "ok"))
       => /\ ev.chat_id \in DOMAIN user_twilio_credentials
          /\ user_twilio_credentials[ev.chat_id]
                = [sid |-> ev.args[1], token |-> ev.args[2],
                   client |-> Client(ev.args[1], ev.args[2])]
          /\ ev.replies = <<Reply("reply_text", Msg("ConfiguredOk"))>>
          /\ ev.resolves[1].ret = Client(ev.args[1], ev.args[2])
    /\ (ev.handler = "configure_twilio"
           /\ \E i \in DOMAIN ev.replies : ev.replies[i].text = Msg("ConfiguredOk"))
       => /\ Len(ev.resolves) = 1
          /\ ev.resolves[1].ret # None
          /\ ev.resolves[1].ret.t = "Client"

\* the identifier "AC" + 32 characters was configured by a user with no record
C7_Witness ==
    /\ ConfigureWith2Args
    /\ ev.args[1] = SidA
    /\ Len(ev.args[1]) = 34
    /\ ev.chat_id \notin DOMAIN ev.pre
    /\ HasCachedClient(user_twilio_credentials, ev.chat_id)
    /\ ev.replies = <<Reply("reply_text", Msg("ConfiguredOk"))>>

---------------------------------------------------------------------------
(* C8 *)

\* C8: in every reachable state, a record that holds a cached handle holds the
\* handle built from the identifier and secret now stored in it, and a probe
\* of a client built from that pair succeeded after the pair was stored.
C8_CachedHandleMatchesPair ==
    \A c \in DOMAIN user_twilio_credentials :
        "client" \in DOMAIN user_twilio_credentials[c]
        => /\ user_twilio_credentials[c]["client"]
                = Client(user_twilio_credentials[c]["sid"],
                         user_twilio_credentials[c]["token"])
           /\ validated[c]

\* a /configure replaced the identifier of a validated session and the new
\* pair was validated
C8_Witness ==
    /\ ConfigureWith2Args
    /\ HasCachedClient(ev.pre, ev.chat_id)
    /\ ev.pre[ev.chat_id]["sid"] # ev.args[1]
    /\ HasCachedClient(user_twilio_credentials, ev.chat_id)
    /\ user_twilio_credentials[ev.chat_id]["sid"] = ev.args[1]

---------------------------------------------------------------------------
(* C9 *)

\* the button event got past the credentials check (or needed none)
Dispatched ==
    /\ ev.handler = "button_callback_handler"
    /\ \/ ev.resolves = <<>>
       \/ (~ev.resolves[1].raised /\ ev.resolves[1].ret # None)

\* the operation and the first reply a branch hands its payload s to
BranchGot(p, s) ==
    CASE p = "buy_" ->
            /\ ev.replies[1].text = Str("ProcessingPurchase", [number |-> s])
            /\ Len(ev.ops) = 1
            /\ ev.ops[1].op = "_internal_buy_number"
            /\ ev.ops[1].arg = [phone_number |-> s]
      [] p = "release_" ->
            /\ ev.replies[1].text = Str("ProcessingRelease", [number |-> s])
            /\ Len(ev.ops) = 1
            /\ ev.ops[1].op = "_internal_release_number"
            /\ ev.ops[1].arg = [phone_number |-> s]
      [] p = "sms_" ->
            /\ ev.replies[1].text = Str("FetchingSms", [number |-> s, limit |-> 5])
            /\ Len(ev.ops) = 1
            /\ ev.ops[1].op = "_internal_check_sms"
            /\ ev.ops[1].arg = [phone_number |-> s, limit |-> 5]
      [] OTHER ->
            (ev.ops # <<>>) = (s = "my_numbers_action")

\* C9: a button event with data p + s, p one of buy_, release_, sms_, menu_,
\* that gets past the credentials check is routed to the branch of p, and the
\* argument handed to that branch is exactly s, whatever s contains; data that
\* starts with none of the prefixes is routed to no branch.
C9_PrefixRoundTrip ==
    Dispatched
    => /\ \A p \in {"buy_", "release_", "sms_", "menu_"} :
            \A s \in Payloads \cup MenuActions :
                ev.data = p \o s
                => /\ ev.route = <<[prefix |-> p, payload |-> s]>>
                   /\ BranchGot(p, s)
       /\ (\A p \in {"buy_", "release_", "sms_", "menu_"} :
                \A s \in Payloads \cup MenuActions : ev.data # p \o s)
          => ev.route = <<>> /\ ev.ops = <<>> /\ ev.replies = <<>>

\* a release button whose payload itself starts with another prefix
C9_Witness ==
    /\ Dispatched
    /\ ev.data = "release_buy_" \o PhoneNumber(1)
    /\ ev.route = <<[prefix |-> "release_", payload |-> "buy_" \o PhoneNumber(1)]>>
    /\ Len(ev.ops) = 1
    /\ ev.ops[1].arg = [phone_number |-> "buy_" \o PhoneNumber(1)]

---------------------------------------------------------------------------
(* C10 *)

CheckSmsInvoked ==
    \E i \in DOMAIN ev.ops : ev.ops[i].op = "_internal_check_sms"

\* the requests made by the operations of the event (the probes left out)
OpRequests ==
    SelectSeq(ev.calls, LAMBDA c : c.op \notin {"Client", "accounts.fetch"})

\* C10: in check_sms the ownership lookup (owned numbers filtered by the given
\* number, limit 1) precedes the message listing, which is called only after
\* the lookup returned a match; when the lookup returns no match, the result
\* is the "you do not seem to own" message and no message listing is called.
C10_LookupBeforeMessages ==
    CheckSmsInvoked
    => LET number == ev.ops[1].arg.phone_number
           reqs == OpRequests
       IN  /\ \A i \in DOMAIN reqs :
                 reqs[i].op = "messages.list"
                 => /\ i = 2
                    /\ reqs[i].arg.to = number
                    /\ reqs[1].op = "incoming_phone_numbers.list"
                    /\ reqs[1].arg = [phone_number |-> number, limit |-> 1]
                    /\ reqs[1].outcome.kind = "ok"
                    /\ reqs[1].outcome.value.items # <<>>
           /\ (ev.ops[1].client # None
                 => /\ reqs # <<>>
                    /\ reqs[1].op = "incoming_phone_numbers.list"
                    /\ reqs[1].arg = [phone_number |-> number, limit |-> 1])
           /\ (reqs # <<>> /\ reqs[1].outcome = Ok(List(<<>>))
                 => /\ Len(reqs) = 1
                    /\ ev.replies[Len(ev.replies)].text
                          = Str("NotOwned", [number |-> number])
                    /\ ~ev.raised)

\* /check_sms for a number the lookup did not find in the account
C10_Witness ==
    /\ ev.handler = "check_sms_command"
    /\ CheckSmsInvoked
    /\ Len(OpRequests) = 1
    /\ OpRequests[1].outcome = Ok(List(<<>>))
    /\ ev.replies[Len(ev.replies)].text = Str("NotOwned", [number |-> PhoneNumber(1)])

---------------------------------------------------------------------------
(* C11 *)

ReleaseInvoked ==
    \E i \in DOMAIN ev.ops : ev.ops[i].op = "_internal_release_number"

\* C11: in release a delete call is issued only after the lookup by phone
\* number (limit 1) returned a match, and it deletes the provider identifier of
\* the matched record; when the lookup returns no match the result is the
\* "not found in your account" message and no delete call is issued.
C11_DeleteOnlyAfterMatch ==
    ReleaseInvoked
    => LET number == ev.ops[1].arg.phone_number
           reqs == OpRequests
       IN  /\ \A i \in DOMAIN reqs :
                 reqs[i].op = "incoming_phone_numbers.delete"
                 => /\ i = 2
                    /\ reqs[1].op = "incoming_phone_numbers.list"
                    /\ reqs[1].arg = [phone_number |-> number, limit |-> 1]
                    /\ reqs[1].outcome.kind = "ok"
                    /\ reqs[1].outcome.value.items # <<>>
                    /\ reqs[1].outcome.value.items[1].phone_number = number
                    /\ reqs[i].arg = [sid |-> reqs[1].outcome.value.items[1].sid]
           /\ (ev.ops[1].client # None
                 => /\ reqs # <<>>
                    /\ reqs[1].op = "incoming_phone_numbers.list"
                    /\ reqs[1].arg = [phone_number |-> number, limit |-> 1])
           /\ (reqs # <<>> /\ reqs[1].outcome = Ok(List(<<>>))
                 => /\ Len(reqs) = 1
                    /\ ev.returns = << [op |-> "_internal_release_number",
                                        value |-> Str("NotFoundInAccount",
                                                      [number |-> number])] >>
                    /\ ev.replies[Len(ev.replies)].text
                          = Str("NotFoundInAccount", [number |-> number])
                    /\ ~ev.raised)

\* /release_number of a number found under the provider's second identifier:
\* that identifier was deleted
C11_Witness ==
    /\ ev.handler = "release_number_command"
    /\ ReleaseInvoked
    /\ Len(OpRequests) = 2
    /\ OpRequests[1].outcome = Ok(List(<<IncomingNumber(PhoneNumber(1), "PN2")>>))
    /\ OpRequests[2].op = "incoming_phone_numbers.delete"
    /\ OpRequests[2].arg = [sid |-> "PN2"]
    /\ OpRequests[2].outcome.kind = "ok"
    /\ ev.replies[Len(ev.replies)].text = Str("Released", [number |-> PhoneNumber(1)])

---------------------------------------------------------------------------
(* C12 *)

\* a /check_sms event of a user whose session passed the wrapper's check and
\* whose handler went on to read its arguments, the first one a "+" number
CheckSmsPlusNumber ==
    /\ ev.handler = "check_sms_command"
    /\ Len(ev.resolves) = 2
    /\ ev.resolves[1].ret # None
    /\ ~ev.resolves[2].raised
    /\ Len(ev.args) >= 1
    /\ StartsWith(ev.args[1], "+")

\* the event ended with the range/type message and reached no operation
LimitRejected ==
    /\ ev.replies # <<>>
    /\ ev.replies[Len(ev.replies)]
          \in { Reply("reply_text", Msg("InvalidLimit")),
                Reply("reply_text", Msg("LimitOutOfRange")) }
    /\ Len(ev.replies) = 1
    /\ ev.ops = <<>>
    /\ OpRequests = <<>>
    /\ ~ev.raised

\* check_sms was invoked with limit n and every message listing carries n
LimitPassed(n) ==
    /\ Len(ev.ops) = 1
    /\ ev.ops[1].op = "_internal_check_sms"
    /\ ev.ops[1].arg = [phone_number |-> ev.args[1], limit |-> n]
    /\ \A i \in DOMAIN OpRequests :
          OpRequests[i].op = "messages.list"
          => OpRequests[i].arg = [to |-> ev.args[1], limit |-> n]
    /\ (Len(OpRequests) >= 1 /\ OpRequests[1].outcome.kind = "ok"
        /\ OpRequests[1].outcome.value.items # <<>>
          => Len(OpRequests) = 2 /\ OpRequests[2].op = "messages.list")

\* C12: for /check_sms with a "+" number from an authenticated user, a second
\* argument that is not an integer or is an integer outside 1..20 is rejected
\* with the range/type message and neither the lookup nor the message listing
\* is called; an integer in 1..20 is passed unchanged as the limit of the
\* message listing; with no second argument the limit is 5.
C12_LimitBounds ==
    CheckSmsPlusNumber
    => /\ (Len(ev.args) = 1 => LimitPassed(5))
       /\ (Len(ev.args) >= 2
             => /\ (~IsInt(ev.args[2]) => LimitRejected)
                /\ \A n \in -1..21 :
                      ev.args[2] = ToString(n)
                      => IF 1 <= n /\ n <= 20 THEN LimitPassed(n) ELSE LimitRejected
                /\ (IsInt(ev.args[2])
                      => IF 1 <= IntOf(ev.args[2]) /\ IntOf(ev.args[2]) <= 20
                         THEN LimitPassed(IntOf(ev.args[2]))
                         ELSE LimitRejected))

\* the boundary value 20 was accepted and the messages were listed with limit 20
C12_Witness ==
    /\ CheckSmsPlusNumber
    /\ ev.args = <<PhoneNumber(1), "20">>
    /\ Len(OpRequests) = 2
    /\ OpRequests[2].op = "messages.list"
    /\ OpRequests[2].arg.limit = 20
    /\ OpRequests[2].outcome.kind = "ok"

---------------------------------------------------------------------------
(* C13 *)

\* the ways of writing "no filter"
NoneWords == {"none", "None", "NONE", "nOnE", "_", "-"}

\* a /search_numbers event whose optional filters, as far as they are given,
\* are all written as "no filter"
SearchWithoutFilters ==
    /\ ev.handler = "search_available_numbers_command"
    /\ Len(ev.args) \in 1..4
    /\ \A i \in 2..Len(ev.args) : ev.args[i] \in NoneWords

NoFilterParams ==
    [limit |-> 5, area_code |-> None, contains |-> None, in_postal_code |-> None]

\* filter lists that say "no filter" in every position given: each word in
\* each position, and mixed ones
NoFilterLists ==
    { <<w>> : w \in NoneWords }
    \cup { <<"-", w>> : w \in NoneWords }
    \cup { <<"_", "none", w>> : w \in NoneWords }
    \cup { <<w, w, w>> : w \in NoneWords }
    \cup { <<"NONE", "-">>, <<"nOnE", "_", "-">> }

\* C13: with each of the three optional filters omitted or written as "none",
\* "_" or "-" in any letter case, the search command can go exactly the ways
\* the command with the country alone can go (same requests, same replies,
\* same effect on the store), and the request it sends carries the country
\* and limit 5 only.
C13_NoneFiltersAreOmitted ==
    /\ ev = Idle
       => \A chat_id \in ChatIds, country \in {"us", "GB"}, filters \in NoFilterLists :
             search_available_numbers_command(user_twilio_credentials, chat_id,
                                              <<country>> \o filters)
             = search_available_numbers_command(user_twilio_credentials, chat_id,
                                                <<country>>)
    /\ SearchWithoutFilters
       => /\ \A i \in DOMAIN OpRequests :
                /\ OpRequests[i].op = "available_phone_numbers.local.list"
                /\ OpRequests[i].arg.params = NoFilterParams
                /\ OpRequests[i].arg.country_code \in {"US", "GB"}
          /\ \A i \in DOMAIN ev.ops : ev.ops[i].arg.params = NoFilterParams

\* a search with the three filters given as "-", "NONE" and "_" that found numbers
C13_Witness ==
    /\ ev.handler = "search_available_numbers_command"
    /\ ev.args = <<"us", "-", "NONE", "_">>
    /\ Len(OpRequests) = 1
    /\ OpRequests[1].arg = [country_code |-> "US", params |-> NoFilterParams]
    /\ OpRequests[1].outcome.kind = "ok"
    /\ OpRequests[1].outcome.value.items # <<>>
    /\ ev.replies[Len(ev.replies)].text.id = "FoundNumbers"

---------------------------------------------------------------------------
(* C14 *)

ListShapedOps == {"_internal_search_numbers", "_internal_list_my_numbers"}

\* v is (None, non-empty list) or (message, None)
ExactlyOnePopulated(v) ==
    /\ v.t = "tuple"
    /\ Len(v.items) = 2
    /\ \/ /\ v.items[1] = None
          /\ v.items[2].t = "list"
          /\ v.items[2].items # <<>>
       \/ /\ v.items[1].t = "str"
          /\ v.items[2] = None

\* the text that reports zero records
IsInformational(text) ==
    /\ text.t = "str"
    /\ text.id \in {"NoNumbersFound", "NoOwnedNumbers"}

\* the event made one search or listing request and the provider returned
\* zero records
ZeroRecords ==
    /\ Len(ev.ops) = 1
    /\ ev.ops[1].op \in ListShapedOps
    /\ Len(OpRequests) = 1
    /\ OpRequests[1].outcome = Ok(List(<<>>))

\* C14: search and list_owned return, in every outcome, a pair with exactly
\* one field populated: (None, non-empty record list) or (message, None).
\* Zero records from the provider give the informational message with no
\* records, no exception leaves the handler, and that message is the final
\* response of the event.
C14_ExactlyOneField ==
    /\ \A i \in DOMAIN ev.returns :
          ev.returns[i].op \in ListShapedOps
          => ExactlyOnePopulated(ev.returns[i].value)
    /\ \A i \in DOMAIN ev.ops :
          ev.ops[i].op \in ListShapedOps => Len(ev.returns) = Len(ev.ops)
    /\ ZeroRecords
       => /\ IsInformational(ev.returns[1].value.items[1])
          /\ ev.returns[1].value.items[2] = None
          /\ ~ev.raised
          /\ ev.replies[Len(ev.replies)].text = ev.returns[1].value.items[1]
          /\ ev.replies[Len(ev.replies)].markup = NoMarkup

\* the "List My Numbers" button of a user who owns no number
C14_Witness ==
    /\ ev.handler = "button_callback_handler"
    /\ ZeroRecords
    /\ ev.returns[1].value = Tuple(<<Msg("NoOwnedNumbers"), None>>)
    /\ ev.replies[Len(ev.replies)] = Reply("message.reply_text", Msg("NoOwnedNumbers"))

---------------------------------------------------------------------------
(* C15 *)

\* the event invoked purchase and the provider answered the create request
\* with a fault of its own (TwilioRestException)
PurchaseFault ==
    /\ Len(ev.ops) = 1
    /\ ev.ops[1].op = "_internal_buy_number"
    /\ Len(OpRequests) = 1
    /\ OpRequests[1].op = "incoming_phone_numbers.create"
    /\ OpRequests[1].outcome.kind = TwilioRestException

\* C15: when the provider reports a fault to purchase, the result is the
\* error text for that number, with the hint about availability or account
\* restrictions appended if and only if the fault code is 21452.
C15_HintIffUnavailable ==
    PurchaseFault
    => LET result == ev.returns[1].value
           code == OpRequests[1].outcome.code
       IN  /\ result.t = "str"
           /\ result.id = "ErrorBuying"
           /\ result.arg.number = ev.ops[1].arg.phone_number
           /\ result.arg.code = code
           /\ result.arg.hint = (code = 21452)
           /\ ev.replies[Len(ev.replies)].text = result
           /\ ~ev.raised

\* a purchase refused with a fault other than 21452: no hint
C15_Witness ==
    /\ PurchaseFault
    /\ ev.handler = "buy_number_command"
    /\ OpRequests[1].outcome.code = 20003
    /\ ev.replies[Len(ev.replies)].text
          = Str("ErrorBuying", [number |-> PhoneNumber(1), code |-> 20003,
                                hint |-> FALSE])

---------------------------------------------------------------------------
(* C16 *)

SingleObjectOps ==
    {"_internal_buy_number", "_internal_release_number", "_internal_check_sms"}

\* C16: purchase, release and check_sms return a single message string in
\* every outcome (success, not found / not owned, provider fault, unexpected
\* fault), so the value the dispatcher hands to the reply is always one string.
C16_SingleString ==
    \A i \in DOMAIN ev.returns :
        ev.returns[i].op \in SingleObjectOps
        => /\ ev.returns[i].value.t = "str"
           /\ \A j \in DOMAIN ev.replies : ev.replies[j].text.t = "str"

\* release whose lookup was answered with a provider fault: the operation
\* returned the pair (message, None)
C16_Witness ==
    /\ ev.handler = "release_number_command"
    /\ ev.args = <<PhoneNumber(1)>>
    /\ Len(OpRequests) = 1
    /\ OpRequests[1].outcome.kind = TwilioRestException
    /\ ev.returns = << [op |-> "_internal_release_number",
                        value |-> Tuple(<<Str("ErrorReleasing",
                                              [number |-> PhoneNumber(1),
                                               code |-> OpRequests[1].outcome.code]),
                                          None>>)] >>

---------------------------------------------------------------------------
(* C17 *)

\* the second argument of /check_sms is not a limit
BadLimit(s) == ~IsInt(s) \/ IntOf(s) < 1 \/ IntOf(s) > 20

\* the arguments of the command violate its shape
ShapeViolation ==
    \/ /\ ev.handler = "configure_twilio"
       /\ (Len(ev.args) # 2 \/ MalformedId(ev.args[1]))
    \/ /\ ev.handler = "search_available_numbers_command"
       /\ Len(ev.args) < 1
    \/ /\ ev.handler \in {"buy_number_command", "release_number_command"}
       /\ (Len(ev.args) # 1 \/ ~StartsWith(ev.args[1], "+"))
    \/ /\ ev.handler = "check_sms_command"
       /\ \/ Len(ev.args) < 1
          \/ ~StartsWith(ev.args[1], "+")
          \/ (Len(ev.args) >= 2 /\ BadLimit(ev.args[2]))

\* the usage and format messages of the commands
UsageTexts ==
    [ configure_twilio |-> {Msg("IncorrectUsage"), Msg("InvalidSidFormat")},
      search_available_numbers_command |-> {Msg("SearchUsage")},
      buy_number_command |-> {Msg("BuyUsage"), Msg("InvalidPhoneNumberFormat")},
      release_number_command |-> {Msg("ReleaseUsage"), Msg("InvalidPhoneNumberFormat")},
      check_sms_command |-> {Msg("CheckSmsUsage"), Msg("InvalidLimit"),
                             Msg("LimitOutOfRange"), Msg("InvalidPhoneNumberFormat")} ]

EndsWithUsage ==
    /\ ev.replies # <<>>
    /\ ev.replies[Len(ev.replies)].via = "reply_text"
    /\ ev.replies[Len(ev.replies)].text \in UsageTexts[ev.handler]
    /\ ev.replies[Len(ev.replies)].markup = NoMarkup

RECURSIVE ResolverCalls(_)
\* the provider calls made inside the first n calls of get_twilio_client
ResolverCalls(n) ==
    IF n = 0 THEN <<>> ELSE ResolverCalls(n - 1) \o ev.resolves[n].calls

\* C17 as the specification states it: a command whose arguments violate its
\* shape ends with a usage or format message and makes no provider call of
\* any kind, the account probe included.
C17_NoCallOnBadShape ==
    ShapeViolation => EndsWithUsage /\ ev.calls = <<>>

\* C17: a command whose arguments violate its shape invokes no provider
\* operation.  /configure makes no provider call at all and answers with its
\* usage or format message.  The commands that require a session resolve it
\* before they read their arguments, so the only provider calls of the event
\* are those of the session resolver (client construction and account probe);
\* the event ends with the "configure first" message when the resolver returns
\* no client, with the usage or format message when it returns one, and
\* without a reply when the resolver raises.
C17_NoOperationOnBadShape ==
    ShapeViolation
    => /\ ev.ops = <<>>
       /\ OpRequests = <<>>
       /\ ev.calls = ResolverCalls(Len(ev.resolves))
       /\ IF ev.handler = "configure_twilio"
          THEN /\ ev.calls = <<>>
               /\ ev.resolves = <<>>
               /\ EndsWithUsage
               /\ Len(ev.replies) = 1
          ELSE /\ ev.resolves # <<>>
               /\ IF ev.raised
                  THEN ev.replies = <<>>
                  ELSE /\ Len(ev.replies) = 1
                       /\ IF ev.resolves[1].ret = None
                          THEN ev.replies[1] = Reply("reply_text", Msg("CredentialsNeeded"))
                          ELSE EndsWithUsage

\* /buy_number without arguments from a user with a cached handle: the handle
\* was probed before the usage message was sent
C17_Witness ==
    /\ ev.handler = "buy_number_command"
    /\ ev.args = <<>>
    /\ HasCachedClient(ev.pre, ev.chat_id)
    /\ ev.calls # <<>>
    /\ ev.calls[1].op = "accounts.fetch"
    /\ ev.replies = << Reply("reply_text", Msg("BuyUsage")) >>

---------------------------------------------------------------------------
(* C18 *)

\* C18: on every dispatch path (the buy, release and check_sms commands and
\* the buy_, release_ and sms_ buttons) purchase, release and check_sms are
\* invoked only with a phone number that starts with "+".
C18_OnlyPlusNumbers ==
    \A i \in DOMAIN ev.ops :
        ev.ops[i].op \in SingleObjectOps
        => StartsWith(ev.ops[i].arg.phone_number, "+")

\* a buy_ button whose payload has no "+": purchase was invoked with it and the
\* create request was sent to the provider
C18_Witness ==
    /\ ev.handler = "button_callback_handler"
    /\ ev.data = "buy_15551230001"
    /\ ev.ops = << [op |-> "_internal_buy_number", client |-> ev.resolves[1].ret,
                    arg |-> [phone_number |-> "15551230001"]] >>
    /\ Len(OpRequests) = 1
    /\ OpRequests[1].op = "incoming_phone_numbers.create"
    /\ OpRequests[1].arg = [phone_number |-> "15551230001"]

---------------------------------------------------------------------------
(* C19 *)

\* C19: an admin_stats event of a caller outside the admin allow-set gets the
\* fixed "admins only" message, the attempt is logged with the caller's
\* identity and the statistics are not produced; for a caller in the
\* allow-set the statistics are returned and equal the number of session
\* records in the store; in both cases the store is unchanged.
C19_AdminGate ==
    ev.handler = "admin_stats_command"
    => /\ user_twilio_credentials = ev.pre
       /\ ev.calls = <<>>
       /\ ev.resolves = <<>>
       /\ ~ev.raised
       /\ IF ev.chat_id \in {123456789}
          THEN /\ ev.replies
                     = << Reply("reply_text",
                                Str("AdminStats",
                                    [active_configs |-> Cardinality(DOMAIN ev.pre)])) >>
               /\ ev.logs = <<>>
          ELSE /\ ev.replies = << Reply("reply_text", Msg("AdminsOnly")) >>
               /\ ev.logs = << [level |-> "warning", chat_id |-> ev.chat_id] >>

\* a caller outside the allow-set asked for the statistics while the store held
\* a session record
C19_Witness ==
    /\ ev.handler = "admin_stats_command"
    /\ ev.chat_id = 1
    /\ DOMAIN ev.pre # {}
    /\ ev.replies = << Reply("reply_text", Msg("AdminsOnly")) >>
    /\ ev.logs = << [level |-> "warning", chat_id |-> 1] >>

---------------------------------------------------------------------------
(* C20 *)

\* the event rendered a list-shaped result with choices: its operation
\* returned records
RenderedRecords ==
    /\ Len(ev.returns) = 1
    /\ ev.returns[1].op \in ListShapedOps
    /\ ev.returns[1].value.items[1] = None

Records == ev.returns[1].value.items[2].items

RECURSIVE SearchBlocksLen(_, _)
\* the characters of the blocks of search hits i..Len(numbers) (main.py 382-383)
SearchBlocksLen(numbers, i) ==
    IF i > Len(numbers) THEN 0
    ELSE 3 + Len(numbers[i].friendly_name) + 4 + Len(numbers[i].phone_number) + 3
         + 13 + Len(numbers[i].region) + 14 + Len(numbers[i].locality) + 5
         + SearchBlocksLen(numbers, i + 1)

\* the characters of the text rendered for the records, footer included
\* (main.py 378-393 for search hits, 436-454 and 596-609 for owned numbers)
RenderedLen ==
    IF ev.returns[1].op = "_internal_search_numbers"
    THEN 30 + SearchBlocksLen(Records, 1) + 26
    ELSE FullMessageLen(Records)

TextId == IF ev.returns[1].op = "_internal_search_numbers"
          THEN "FoundNumbers" ELSE "YourNumbers"
FooterId == IF ev.returns[1].op = "_internal_search_numbers"
            THEN "SelectNumberToBuy" ELSE "ManageYourNumbers"
Choices == IF ev.returns[1].op = "_internal_search_numbers"
           THEN BuyKeyboard(Records) ELSE OwnedKeyboard(Records)

\* the deliveries that follow the progress message
Deliveries == SubSeq(ev.replies, 2, Len(ev.replies))

\* text and choices in one delivery
OneDelivery ==
    /\ Len(Deliveries) = 1
    /\ Deliveries[1].text = Str(TextId, [items |-> Records, footer |-> TRUE])
    /\ Deliveries[1].markup = Choices

\* the text alone, then the choices under the footer line
TwoDeliveries ==
    /\ Len(Deliveries) = 2
    /\ Deliveries[1].text = Str(TextId, [items |-> Records, footer |-> FALSE])
    /\ Deliveries[1].markup = NoMarkup
    /\ Deliveries[2].text = Msg(FooterId)
    /\ Deliveries[2].markup = Choices

---------------------------------------------------------------------------
(* C21 *)

\* a provider boundary call of the event ended with a fault that is not a
\* provider fault
UnexpectedFaultSeen ==
    \E i \in DOMAIN ev.calls : ev.calls[i].outcome.kind = OtherException

UnexpectedTexts ==
    { "UnexpectedSearching", "UnexpectedBuying", "UnexpectedListing",
      "UnexpectedReleasing", "UnexpectedCheckingSms" }

\* C21: whichever provider boundary call of an event (the account probe of the
\* resolver, search, create, list, delete, message listing) ends with a fault
\* that is not a provider fault, the fault does not escape the handler: the
\* event ends with a generic "unexpected error" response.
C21_NoFaultEscapes ==
    UnexpectedFaultSeen
    => /\ ~ev.raised
       /\ ev.replies # <<>>
       /\ ev.replies[Len(ev.replies)].text.t = "str"
       /\ ev.replies[Len(ev.replies)].text.id \in UnexpectedTexts

\* /my_numbers of a user with a cached handle whose probe ended with a fault
\* that is not a provider fault: the exception left the handler, nothing was
\* sent
C21_Witness ==
    /\ ev.handler = "list_my_numbers_command"
    /\ HasCachedClient(ev.pre, ev.chat_id)
    /\ Len(ev.calls) = 1
    /\ ev.calls[1].op = "accounts.fetch"
    /\ ev.calls[1].outcome = UnexpectedFault
    /\ ev.raised
    /\ ev.replies = <<>>

---------------------------------------------------------------------------
(* C24 *)

\* the record of user c is the same in stores before and after: present in
\* both with the same identifier, secret and handle, or absent from both
SameRecord(before, after, c) ==
    /\ (c \in DOMAIN before) = (c \in DOMAIN after)
    /\ c \in DOMAIN before => before[c] = after[c]

\* C24: an event of one user leaves the record of every other user as it was:
\* its presence, its account identifier, its secret and its cached handle.
C24_OtherUsersUntouched ==
    ev.handler # "none"
    => \A c \in ChatIds \ {ev.chat_id} :
           SameRecord(ev.pre, user_twilio_credentials, c)

\* an event of one user that evicted that user's own session while another
\* user held a record with a cached handle
C24_Witness ==
    /\ ev.handler # "none"
    /\ ev.chat_id \in DOMAIN ev.pre
    /\ ev.chat_id \notin DOMAIN user_twilio_credentials
    /\ \E c \in ChatIds \ {ev.chat_id} : HasCachedClient(ev.pre, c)

---------------------------------------------------------------------------
(* C25 *)

\* the store as the event's /configure write (if any) left it
StoreAfterConfigureWrite ==
    IF ev.stored
    THEN StoreCredentials(ev.pre, ev.chat_id, ev.args[1], ev.args[2])
    ELSE ev.pre

\* every change of the store during the event was made by the /configure
\* write or by a call of the resolver
OnlyConfigureAndResolveWrite ==
    /\ ev.resolves = <<>> => user_twilio_credentials = StoreAfterConfigureWrite
    /\ ev.resolves # <<>> =>
          /\ ev.resolves[1].pre = StoreAfterConfigureWrite
          /\ \A i \in 1..(Len(ev.resolves) - 1) :
                 ev.resolves[i + 1].pre = ev.resolves[i].post
          /\ user_twilio_credentials = ev.resolves[Len(ev.resolves)].post

\* a request of a provider operation was refused for authentication
OperationRefused ==
    \E i \in DOMAIN ev.calls :
        /\ ev.calls[i].op # "accounts.fetch"
        /\ ev.calls[i].outcome.kind = TwilioRestException
        /\ ev.calls[i].outcome.code = 20003

\* C25: the five provider operations leave the store as it is in every
\* outcome, an authentication failure inside them included; the store is
\* written by /configure and by the resolver only.
C25_OperationsLeaveStore ==
    ev.handler # "none" => OnlyConfigureAndResolveWrite

\* an operation was refused for authentication by the provider and the
\* user's record, cached handle included, is still in the store
C25_Witness ==
    /\ ev.ops # <<>>
    /\ OperationRefused
    /\ HasCachedClient(user_twilio_credentials, ev.chat_id)
    /\ user_twilio_credentials = ev.pre

---------------------------------------------------------------------------
(* C26 *)

\* the choices delivered with the rendered list
Keyboard == ev.replies[Len(ev.replies)].markup

\* the operations invoked when the button that carries token is pressed by a
\* user whose session resolves to client
OpsOnPress(client, token) ==
    { y.ops : y \in ButtonDispatch(Begin(user_twilio_credentials), client, token) }

OneOp(op, client, arg) == { << [op |-> op, client |-> client, arg |-> arg] >> }

\* the button carries prefix \o number, and pressing it invokes op with arg
RoundTrip(button, prefix, number, op, arg) ==
    /\ button.callback_data = prefix \o number
    /\ \A client \in { Client(SidA, "auth1") } :
           OpsOnPress(client, button.callback_data) = OneOp(op, client, arg)

\* C26: for every record of a rendered list the choices carry tokens built
\* from that record's phone number (buy_ for a search hit, release_ and sms_
\* for an owned number), and pressing such a choice invokes the matching
\* operation (check_sms with limit 5) with exactly that number.
C26_TokensRoundTrip ==
    (RenderedRecords /\ Records # <<>> /\ ev.replies # <<>>)
    => /\ DOMAIN Keyboard = DOMAIN Records
       /\ \A i \in DOMAIN Records :
            LET number == Records[i].phone_number
            IN  IF ev.returns[1].op = "_internal_search_numbers"
                THEN /\ Len(Keyboard[i]) = 1
                     /\ RoundTrip(Keyboard[i][1], "buy_", number,
                                  "_internal_buy_number", [phone_number |-> number])
                ELSE /\ Len(Keyboard[i]) = 2
                     /\ RoundTrip(Keyboard[i][1], "release_", number,
                                  "_internal_release_number", [phone_number |-> number])
                     /\ RoundTrip(Keyboard[i][2], "sms_", number,
                                  "_internal_check_sms",
                                  [phone_number |-> number, limit |-> 5])

\* two owned numbers were rendered; the second row carries the tokens of the
\* second number
C26_Witness ==
    /\ RenderedRecords
    /\ ev.returns[1].op = "_internal_list_my_numbers"
    /\ Len(Records) = 2
    /\ ev.replies # <<>>
    /\ Keyboard[2][1].callback_data = "release_+15551230002"
    /\ Keyboard[2][2].callback_data = "sms_+15551230002"

---------------------------------------------------------------------------
(* C27 *)

\* a probe of resolver call r was refused for authentication
AuthProbeFailure(r) ==
    \E i \in DOMAIN r.calls :
        /\ r.calls[i].op = "accounts.fetch"
        /\ r.calls[i].outcome.kind = TwilioRestException
        /\ r.calls[i].outcome.code = 20003

\* resolver call r removed nothing: the record, its pair and a cached handle
\* it held are still there
NothingRemoved(r) ==
    r.chat_id \in DOMAIN r.pre
    => /\ r.chat_id \in DOMAIN r.post
       /\ PairOf(r.post, r.chat_id) = PairOf(r.pre, r.chat_id)
       /\ HasCachedClient(r.pre, r.chat_id) => HasCachedClient(r.post, r.chat_id)

\* C27: the resolver removes a cached handle or a record only when a probe
\* was refused for authentication; after a probe that failed with another
\* provider fault (server error, rate limit) the pair and the record are
\* still in place.
C27_EvictOnAuthFailureOnly ==
    \A i \in DOMAIN ev.resolves :
        ~AuthProbeFailure(ev.resolves[i]) => NothingRemoved(ev.resolves[i])

\* both probes of one resolver call were answered "too many requests": the
\* record of a user who had a session is gone
C27_Witness ==
    \E i \in DOMAIN ev.resolves :
        LET r == ev.resolves[i]
        IN  /\ HasCachedClient(r.pre, r.chat_id)
            /\ Len(r.calls) = 3
            /\ r.calls[1].outcome = Raise(TwilioRestException, 20429)
            /\ r.calls[3].outcome = Raise(TwilioRestException, 20429)
            /\ r.chat_id \notin DOMAIN r.post

---------------------------------------------------------------------------
(* C28 *)

\* C28: whenever a provider operation is invoked, the client passed to it is
\* a handle (not None) that the resolver returned for the user of the event
\* in the same event, whatever the outcomes of the probes are.
C28_OperationGetsResolvedHandle ==
    \A i \in DOMAIN ev.ops :
        /\ ev.ops[i].client # None
        /\ \E j \in DOMAIN ev.resolves :
               /\ ev.resolves[j].chat_id = ev.chat_id
               /\ ev.resolves[j].ret = ev.ops[i].client

\* /buy_number: the resolver call of the wrapper returned a handle, the
\* resolver call of the handler returned None, and the purchase was invoked
\* with None
C28_Witness ==
    /\ ev.handler = "buy_number_command"
    /\ Len(ev.resolves) = 2
    /\ ev.resolves[1].ret # None
    /\ ev.resolves[2].ret = None
    /\ Len(ev.ops) = 1
    /\ ev.ops[1].op = "_internal_buy_number"
    /\ ev.ops[1].client = None
    /\ ev.chat_id \notin DOMAIN user_twilio_credentials

---------------------------------------------------------------------------
(* C29 *)

\* the users whose stored pair has passed a probe since it was stored
ValidatedUsers == { c \in ChatIds : validated[c] }

\* C29: after every event, completed or aborted, every record in the store
\* holds a pair that has passed at least one probe since it was stored,
\* whatever the outcome of the probe made by /configure is (success, provider
\* fault, fault that is not a provider fault); the statistic of the admin
\* command therefore counts validated configurations only.
C29_StoredMeansValidated ==
    /\ DOMAIN user_twilio_credentials \subseteq ValidatedUsers
    /\ \A i \in DOMAIN ev.replies :
           (ev.replies[i].text.t = "str" /\ ev.replies[i].text.id = "AdminStats")
           => ev.replies[i].text.arg.active_configs = Cardinality(ValidatedUsers)

\* /configure with a well-formed pair whose probe ended with a fault that is
\* not a provider fault: the handler was left by the exception and the pair,
\* which never passed a probe, is in the store
C29_Witness ==
    /\ ev.handler = "configure_twilio"
    /\ ev.stored
    /\ ev.raised
    /\ ev.calls[Len(ev.calls)].outcome = UnexpectedFault
    /\ ev.chat_id \in DOMAIN user_twilio_credentials
    /\ PairOf(user_twilio_credentials, ev.chat_id) = [sid |-> ev.args[1], token |-> ev.args[2]]
    /\ ~validated[ev.chat_id]

\* the admin statistic reports a configuration although no stored pair has
\* passed a probe
C29_StatisticCountsUnvalidated ==
    /\ ev.handler = "admin_stats_command"
    /\ ev.replies # <<>>
    /\ ev.replies[1].text.id = "AdminStats"
    /\ ev.replies[1].text.arg.active_configs = 1
    /\ ValidatedUsers = {}

---------------------------------------------------------------------------
(* The event loop                                                          *)
(*                                                                         *)
(* The handlers are coroutines run by one event loop (main.py 659-678).   *)
(* A coroutine gives up the loop only at an await: query.answer() and the  *)
(* sends of the chat transport.  get_twilio_client is a plain function and *)
(* the _internal_* operations hold no await, so the provider calls run     *)
(* inside the loop's thread: up to the next send a handler runs in one     *)
(* step, and a provider call that does not return keeps the thread.        *)

Update(handler, chat_id, args, data) ==
    [handler |-> handler, chat_id |-> chat_id, args |-> args, data |-> data]

\* the updates followed through the event loop: every command once, and
\* buttons with a known branch, an unknown menu_ action and no known prefix
TaskUpdates ==
    { Update(h, c, <<>>, "")
      : h \in { "start", "help_command", "list_my_numbers_command",
                "owner_info_command", "admin_stats_command" }, c \in ChatIds }
    \cup { Update("configure_twilio", c, <<SidA, "auth1">>, "") : c \in ChatIds }
    \cup { Update("search_available_numbers_command", c, <<"US">>, "") : c \in ChatIds }
    \cup { Update(h, c, <<PhoneNumber(1)>>, "")
           : h \in { "buy_number_command", "release_number_command",
                     "check_sms_command" }, c \in ChatIds }
    \cup { Update("button_callback_handler", c, <<>>, d)
           : c \in ChatIds,
             d \in { "menu_my_numbers_action", "menu_my_numbers_actions",
                     "menu_owner_info", "buy_" \o PhoneNumber(1), "noop" } }

\* main.py 662-675: the handler registered for the update, run from store creds
Runs(creds, u) ==
    CASE u.handler = "start" -> start(creds, u.chat_id)
      [] u.handler = "help_command" -> help_command(creds, u.chat_id)
      [] u.handler = "configure_twilio" -> configure_twilio(creds, u.chat_id, u.args)
      [] u.handler = "search_available_numbers_command" ->
             search_available_numbers_command(creds, u.chat_id, u.args)
      [] u.handler = "buy_number_command" -> buy_number_command(creds, u.chat_id, u.args)
      [] u.handler = "list_my_numbers_command" -> list_my_numbers_command(creds, u.chat_id)
      [] u.handler = "release_number_command" ->
             release_number_command(creds, u.chat_id, u.args)
      [] u.handler = "check_sms_command" -> check_sms_command(creds, u.chat_id, u.args)
      [] u.handler = "owner_info_command" -> owner_info_command(creds, u.chat_id)
      [] u.handler = "admin_stats_command" -> admin_stats_command(creds, u.chat_id)
      [] OTHER -> button_callback_handler(creds, u.chat_id, u.data)

\* the coroutine of update u as the application creates it: the button
\* handler first awaits query.answer() (main.py 543), a command handler runs
Created(u) ==
    [update |-> u,
     stage  |-> IF u.handler = "button_callback_handler" THEN "answer" ELSE "run",
     left   |-> 0,        \* sends the handler has still to make
     sent   |-> 0,        \* sends made
     raised |-> FALSE,    \* the handler ends with an exception
     ops    |-> FALSE,    \* an operation makes provider calls after the next send
     stored |-> FALSE,    \* the handler wrote a pair to the store
     failed |-> {}]       \* the handles whose probe failed in the handler

\* what the event loop sees of run x of a handler
Outcome(x) ==
    [creds  |-> x.creds,              \* the store as the run leaves it
     left   |-> Len(x.replies),       \* the sends it makes
     raised |-> x.raised,
     ops    |-> x.ops # <<>> /\ x.ops[1].client # None,
     stored |-> x.stored,
     failed |-> { x.calls[i].client   \* the handles whose probe failed
                  : i \in { j \in DOMAIN x.calls :
                              /\ x.calls[j].op = "accounts.fetch"
                              /\ x.calls[j].outcome.kind = TwilioRestException } },
     probed |-> x.resolves # <<>> /\ x.resolves[1].calls # <<>>,
     before |-> IF x.resolves # <<>>  \* the store when its first probe starts
                THEN x.resolves[1].pre ELSE x.creds]

\* the stores that the updates followed can produce: a user has no record,
\* the pair of the /configure followed, or that pair with its client
LoopStores ==
    LET records == { [sid |-> SidA, token |-> "auth1"],
                     [sid |-> SidA, token |-> "auth1",
                      client |-> Client(SidA, "auth1")] }
    IN  UNION { [S -> records] : S \in SUBSET ChatIds }

\* every way the handler of an update can go from a store
Outcomes ==
    UNION { { [from |-> creds, update |-> u, outcome |-> Outcome(x)]
              : x \in Runs(creds, u) }
            : creds \in LoopStores, u \in TaskUpdates }

\* the outcomes of the handler of update u run from store creds
OutcomesOf(creds, u) ==
    { row.outcome : row \in { r \in Outcomes : r.from = creds /\ r.update = u } }

\* the thread of the loop is inside a provider call that does not return
Blocked == \E t \in tasks : t.stage = "blocked"

Step(t, next) == tasks' = (tasks \ {t}) \cup {next}

\* mutant: an update is dispatched while another handler is in flight
MayDispatch_Concurrent(running) == TRUE

\* main.py 659: the application is built without concurrent_updates, so an
\* update is processed when the handler of the one before it has ended
MayDispatch(running) == running = {}

\* an update arrives
Receive ==
    /\ waiting = NoUpdate
    /\ \E u \in TaskUpdates : waiting' = u
    /\ UNCHANGED <<user_twilio_credentials, validated, ev, tasks, finished>>

\* main.py 678: the application takes the update and creates its handler
Dispatch ==
    /\ ~Blocked
    /\ waiting # NoUpdate
    /\ MayDispatch(tasks)
    /\ tasks' = tasks \cup {Created(waiting)}
    /\ waiting' = NoUpdate
    /\ finished' = [update |-> NoUpdate, sent |-> 0, raised |-> FALSE]
    /\ UNCHANGED <<user_twilio_credentials, validated, ev>>

\* main.py 543: query.answer() has completed
Answer ==
    /\ ~Blocked
    /\ \E t \in tasks :
          /\ t.stage = "answer"
          /\ Step(t, [t EXCEPT !.stage = "run"])
    /\ UNCHANGED <<user_twilio_credentials, validated, ev, waiting, finished>>

\* the handler runs up to its first send: the wrapper, the resolver calls
\* and the checks of the arguments hold no await
Run ==
    /\ ~Blocked
    /\ \E t \in tasks :
          /\ t.stage = "run"
          /\ \E r \in OutcomesOf(user_twilio_credentials, t.update) :
                /\ user_twilio_credentials' = r.creds
                /\ Step(t, [t EXCEPT !.stage  = "send",
                                      !.left   = r.left,
                                      !.raised = r.raised,
                                      !.ops    = r.ops,
                                      !.stored = r.stored,
                                      !.failed = r.failed])
    /\ UNCHANGED <<validated, ev, waiting, finished>>

\* main.py 96, 108: the probe of the first resolver call does not return
ProbeHangs ==
    /\ ~Blocked
    /\ \E t \in tasks :
          /\ t.stage = "run"
          /\ \E r \in OutcomesOf(user_twilio_credentials, t.update) :
                /\ r.probed
                /\ user_twilio_credentials' = r.before
                /\ Step(t, [t EXCEPT !.stage = "blocked", !.stored = r.stored])
    /\ UNCHANGED <<validated, ev, waiting, finished>>

\* a send has completed; the handler runs up to its next send or to its
\* end, the calls of its operation included
Deliver ==
    /\ ~Blocked
    /\ \E t \in tasks :
          /\ t.stage = "send"
          /\ t.left > 0
          /\ Step(t, [t EXCEPT !.left = @ - 1, !.sent = @ + 1, !.ops = FALSE])
    /\ UNCHANGED <<user_twilio_credentials, validated, ev, waiting, finished>>

\* the progress message has been sent and a call of the operation
\* (main.py 130, 150, 167, 182, 200) does not return
OperationHangs ==
    /\ ~Blocked
    /\ \E t \in tasks :
          /\ t.stage = "send"
          /\ t.left > 0
          /\ t.ops
          /\ Step(t, [t EXCEPT !.stage = "blocked", !.left = @ - 1, !.sent = @ + 1])
    /\ UNCHANGED <<user_twilio_credentials, validated, ev, waiting, finished>>

\* the handler has returned, or its exception has reached the application
Finish ==
    /\ ~Blocked
    /\ \E t \in tasks :
          /\ t.stage = "send"
          /\ t.left = 0
          /\ tasks' = tasks \ {t}
          /\ finished' = [update |-> t.update, sent |-> t.sent, raised |-> t.raised]
    /\ UNCHANGED <<user_twilio_credentials, validated, ev, waiting>>

EventLoopNext ==
    \/ Receive
    \/ Dispatch
    \/ Answer
    \/ Run
    \/ ProbeHangs
    \/ Deliver
    \/ OperationHangs
    \/ Finish

\* the loop runs whatever is ready (and the awaited transport calls
\* complete); that a provider call returns is not assumed
EventLoopSpec ==
    /\ Init
    /\ [][EventLoopNext]_vars
    /\ WF_vars(Dispatch \/ Answer \/ Run \/ Deliver \/ Finish)

---------------------------------------------------------------------------
(* C22 *)

\* at most one handler is between its dispatch and its end
Serialised == Cardinality(tasks) <= 1

\* the cached handle of user c is removed or replaced by the step
HandleLost(c) ==
    /\ HasCachedClient(user_twilio_credentials, c)
    /\ \/ ~HasCachedClient(user_twilio_credentials', c)
       \/ user_twilio_credentials'[c]["client"] # user_twilio_credentials[c]["client"]

\* the step is the run of a handler of user c in which the probe of the
\* handle now cached failed, or which wrote a new pair
OwnInvalidation(c) ==
    \E t \in tasks' \ tasks :
        /\ t.update.chat_id = c
        /\ \/ t.stored
           \/ user_twilio_credentials[c]["client"] \in t.failed

\* C22: the resolver steps of two events of the same user never interleave:
\* while the handler of one event is in flight no other handler runs, and a
\* cached handle is removed or replaced only in the step in which the probe
\* of that very handle failed (or a new pair was written), so no invalidation
\* hits a handle that another event cached after the probe had started.
C22_ResolverSerialised ==
    /\ []Serialised
    /\ [][\A c \in ChatIds : HandleLost(c) => OwnInvalidation(c)]_vars

\* two events of one user are pending at once: the handler of the first has
\* invalidated the session after a failed probe and is awaiting its send,
\* the second (a /configure) has arrived and waits
C22_Witness ==
    \E t \in tasks :
        /\ t.stage = "send"
        /\ t.failed # {}
        /\ t.update.chat_id \notin DOMAIN user_twilio_credentials
        /\ waiting.chat_id = t.update.chat_id
        /\ waiting.handler = "configure_twilio"

---------------------------------------------------------------------------
(* C23 *)

\* an update of user c waits while the handler in flight is another user's
WaitsBehindOther(c) ==
    /\ waiting.chat_id = c
    /\ \A t \in tasks : t.update.chat_id # c

\* C23: a provider call that never returns while one user's event is handled
\* blocks only that event: an update of another user that has arrived is
\* still handled to its end.
C23_OthersStillHandled ==
    \A c \in ChatIds :
        (Blocked /\ WaitsBehindOther(c)) ~> (finished.update.chat_id = c)

\* a provider call of one user's handler does not return while an update of
\* another user waits
C23_Witness ==
    /\ Blocked
    /\ \E c \in ChatIds : WaitsBehindOther(c)

---------------------------------------------------------------------------
(* C30 *)

\* unless a provider call does not return, the update that has arrived is
\* dispatched and the handler in flight reaches its end
EventsEnd ==
    /\ (waiting # NoUpdate /\ ~Blocked) ~> (waiting = NoUpdate \/ Blocked)
    /\ (tasks # {} /\ ~Blocked) ~> (tasks = {} \/ Blocked)

\* an event has reached the end of its handler
AtEnd == finished.update # NoUpdate

KnownMenuActions ==
    { "search_guide", "my_numbers_action", "configure_guide", "help_overview",
      "owner_info" }

\* a button whose payload selects no branch of button_callback_handler
SilentButton(u) ==
    /\ u.handler = "button_callback_handler"
    /\ \/ /\ StartsWith(u.data, "menu_")
          /\ SliceFrom(u.data, 5) \notin KnownMenuActions
       \/ \A prefix \in Prefixes : ~StartsWith(u.data, prefix)

====
